---- MODULE Spec2Model ----
(***************************************************************************)
(* LSB steganography transport and framing of the D-IBAN repository        *)
(* (steganography.js v2: BitQueue, encodeLSB, PixelBitReader,              *)
(* encodeAddressInImage, decodeAddressFromImage).                          *)
(*                                                                         *)
(* A pixel buffer is the flat RGBA array of the source (ImageData.data):   *)
(* pixels[base], pixels[base+1], pixels[base+2], pixels[base+3] of the     *)
(* source are px[base+1] .. px[base+4] here (sequences start at 1).        *)
(***************************************************************************)
EXTENDS Integers, Sequences, FiniteSets, TLC

(* ------------------------------ bounds --------------------------------- *)
\* longest payload (bytes) handed to the encoder or put in a legacy frame
MaxPayloadLen == 8
\* pixels a carrier may have beyond what its frame needs
ExtraPixels == 2
\* number of decode runs on one carrier
MaxDecodes == 2
\* bits pushed into a BitQueue used on its own
MaxQueueBits == 32
\* generated Base58Check addresses per version byte
AddressSeeds == 3

(* ------------------------- program constants --------------------------- *)
MAGIC_MARKER == <<68, 79, 71, 69>>
MAX_DATA_LENGTH == 2000
\* bytes of an address payload, characters of its Base36 form, and the
\* modulus of the IBAN check digits
PayloadBytes == 25
Base36Chars == 39
IbanModulus == 97

(* --------------------------- bit arithmetic ---------------------------- *)
\* (value >> i) & 1
BitOf(value, i) == (value \div (2 ^ i)) % 2

\* slip: the mask is 0xFC
SetLowBit_wrongMask(channel, bit) == (channel \div 4) * 4 + bit

\* (channel & 0xFE) | bit
SetLowBit(channel, bit) == (channel \div 2) * 2 + bit

(* ------------------------------ BitQueue ------------------------------- *)
\* the queue is the array this.bits, oldest bit first
BitQueue_new == << >>

\* slip: the loop runs i = 0..7, least-significant bit first
BitQueue_pushByte_lsbFirst(bits, byte) ==
    bits \o [k \in 1..8 |-> BitOf(byte, k - 1)]

BitQueue_pushByte(bits, byte) ==
    bits \o [k \in 1..8 |-> BitOf(byte, 8 - k)]

\* slip: the loop runs i = 0..count-1, least-significant bit first
BitQueue_pushBitsFromValue_lsbFirst(bits, value, count) ==
    bits \o [k \in 1..count |-> BitOf(value, k - 1)]

BitQueue_pushBitsFromValue(bits, value, count) ==
    bits \o [k \in 1..count |-> BitOf(value, count - k)]

\* (out << 1) | bit on the 32-bit signed integers of the bitwise operators:
\* bit 30 of out becomes the sign bit, bit 31 is shifted out
ShiftLeftOr(out, bit) ==
    ((out % (2 ^ 30)) * 2 + bit)
        - (IF (out \div (2 ^ 30)) % 2 = 1 THEN 2 ^ 30 ELSE 0)
        - (IF (out \div (2 ^ 30)) % 2 = 1 THEN 2 ^ 30 ELSE 0)

RECURSIVE ShiftIn(_, _, _)
\* the loop of popBits: out = (out << 1) | bits.shift(), n times
ShiftIn(bits, n, out) ==
    IF n = 0 THEN out
    ELSE ShiftIn(Tail(bits), n - 1, ShiftLeftOr(out, Head(bits)))

\* slip: the length test is left out; shift() of an empty array gives
\* undefined, which | reads as 0, so a short queue is drained
BitQueue_popBits_drains(bits, n) ==
    LET m == IF Len(bits) < n THEN Len(bits) ELSE n
    IN  [ok |-> TRUE, out |-> ShiftIn(bits \o [k \in 1..(n - m) |-> 0], n, 0),
         bits |-> SubSeq(bits, m + 1, Len(bits))]

\* popBits(n): ok = FALSE stands for the null return
BitQueue_popBits(bits, n) ==
    IF Len(bits) < n
    THEN [ok |-> FALSE, out |-> 0, bits |-> bits]
    ELSE [ok |-> TRUE, out |-> ShiftIn(bits, n, 0),
          bits |-> SubSeq(bits, n + 1, Len(bits))]

BitQueue_size(bits) == Len(bits)

(* ------------------------------ encodeLSB ------------------------------ *)
RECURSIVE PushAllBytes(_, _)
\* for (i...) q.pushByte(dataBytes[i])
PushAllBytes(bits, dataBytes) ==
    IF dataBytes = << >> THEN bits
    ELSE PushAllBytes(BitQueue_pushByte(bits, Head(dataBytes)), Tail(dataBytes))

\* slip: the bits that are left are popped as one value and not shifted up
PopPadded_unshifted(bits) ==
    LET p == BitQueue_popBits(bits, BitQueue_size(bits))
    IN  [out |-> p.out, bits |-> p.bits]

\* the else branch of the loop body: three popBits(1), null read as 0
PopPadded(bits) ==
    LET p1 == BitQueue_popBits(bits, 1)
        p2 == BitQueue_popBits(p1.bits, 1)
        p3 == BitQueue_popBits(p2.bits, 1)
        v1 == IF p1.ok THEN p1.out ELSE 0
        v2 == IF p2.ok THEN p2.out ELSE 0
        v3 == IF p3.ok THEN p3.out ELSE 0
    IN  [out |-> (v1 * 2 + v2) * 2 + v3, bits |-> p3.bits]

\* slip: the alpha write is left out
WritePixel_keepsAlpha(px, pixelIndex, bits) ==
    LET base == pixelIndex * 4
    IN  [px EXCEPT ![base + 1] = SetLowBit(px[base + 1], BitOf(bits, 2)),
                   ![base + 2] = SetLowBit(px[base + 2], BitOf(bits, 1)),
                   ![base + 3] = SetLowBit(px[base + 3], BitOf(bits, 0))]

\* the four channel writes of one loop iteration
WritePixel(px, pixelIndex, bits) ==
    LET base == pixelIndex * 4
    IN  [px EXCEPT ![base + 1] = SetLowBit(px[base + 1], BitOf(bits, 2)),
                   ![base + 2] = SetLowBit(px[base + 2], BitOf(bits, 1)),
                   ![base + 3] = SetLowBit(px[base + 3], BitOf(bits, 0)),
                   ![base + 4] = 255]

RECURSIVE encodeLSBLoop(_, _, _)
\* while (q.size() > 0) { ... }; ok = FALSE stands for the throw
\* "Image too small for data", raised with the buffer as written so far
encodeLSBLoop(px, q, pixelIndex) ==
    IF BitQueue_size(q) = 0
    THEN [ok |-> TRUE, pixels |-> px, pixelIndex |-> pixelIndex]
    ELSE IF pixelIndex >= Len(px) \div 4
    THEN [ok |-> FALSE, pixels |-> px, pixelIndex |-> pixelIndex]
    ELSE LET remaining == BitQueue_size(q)
             popped == IF remaining >= 3
                       THEN BitQueue_popBits(q, 3)
                       ELSE PopPadded(q)
         IN  encodeLSBLoop(WritePixel(px, pixelIndex, popped.out),
                           popped.bits, pixelIndex + 1)

encodeLSB(px, dataBytes) ==
    encodeLSBLoop(px, PushAllBytes(BitQueue_new, dataBytes), 0)

(* ---------------------------- PixelBitReader --------------------------- *)
\* a cursor is its pixelIndex and its queue q; this.pixels is the shared
\* buffer, passed to every method as px
\* slip: the constructor starts at pixel 1
PixelBitReader_new_skipsFirst(px) == [pixelIndex |-> 1, q |-> BitQueue_new]

PixelBitReader_new(px) == [pixelIndex |-> 0, q |-> BitQueue_new]

PixelBitReader_totalPixels(px) == Len(px) \div 4

RECURSIVE PixelBitReader_fillBits_premultiplied(_, _, _)
\* slip: the channels are read premultiplied by alpha, so that those of a
\* fully transparent pixel read as 0
PixelBitReader_fillBits_premultiplied(rd, px, n) ==
    IF ~(BitQueue_size(rd.q) < n)
    THEN [ok |-> TRUE, rd |-> rd]
    ELSE IF rd.pixelIndex >= PixelBitReader_totalPixels(px)
    THEN [ok |-> FALSE, rd |-> rd]
    ELSE LET base == rd.pixelIndex * 4
             opaque == IF px[base + 4] = 0 THEN 0 ELSE 1
             b0 == (px[base + 1] * opaque) % 2
             b1 == (px[base + 2] * opaque) % 2
             b2 == (px[base + 3] * opaque) % 2
             bits == (b0 * 4) + (b1 * 2) + b2
         IN  PixelBitReader_fillBits_premultiplied(
                 [pixelIndex |-> rd.pixelIndex + 1,
                  q |-> BitQueue_pushBitsFromValue(rd.q, bits, 3)], px, n)

RECURSIVE PixelBitReader_fillBits(_, _, _)
PixelBitReader_fillBits(rd, px, n) ==
    IF ~(BitQueue_size(rd.q) < n)
    THEN [ok |-> TRUE, rd |-> rd]
    ELSE IF rd.pixelIndex >= PixelBitReader_totalPixels(px)
    THEN [ok |-> FALSE, rd |-> rd]
    ELSE LET base == rd.pixelIndex * 4
             b0 == px[base + 1] % 2
             b1 == px[base + 2] % 2
             b2 == px[base + 3] % 2
             bits == (b0 * 4) + (b1 * 2) + b2
         IN  PixelBitReader_fillBits(
                 [pixelIndex |-> rd.pixelIndex + 1,
                  q |-> BitQueue_pushBitsFromValue(rd.q, bits, 3)], px, n)

\* slip: the bits left over in the queue are thrown away after the pop
PixelBitReader_popBits_dropsRest(rd, px, n) ==
    LET f == PixelBitReader_fillBits(rd, px, n)
        p == BitQueue_popBits(f.rd.q, n)
    IN  IF ~f.ok
        THEN [ok |-> FALSE, out |-> 0, rd |-> f.rd]
        ELSE [ok |-> p.ok, out |-> p.out,
              rd |-> [pixelIndex |-> f.rd.pixelIndex, q |-> BitQueue_new]]

PixelBitReader_popBits(rd, px, n) ==
    LET f == PixelBitReader_fillBits(rd, px, n)
        p == BitQueue_popBits(f.rd.q, n)
    IN  IF ~f.ok
        THEN [ok |-> FALSE, out |-> 0, rd |-> f.rd]
        ELSE [ok |-> p.ok, out |-> p.out,
              rd |-> [pixelIndex |-> f.rd.pixelIndex, q |-> p.bits]]

\* slip: popByte asks for 7 bits
PixelBitReader_popByte_sevenBits(rd, px) == PixelBitReader_popBits(rd, px, 7)

PixelBitReader_popByte(rd, px) == PixelBitReader_popBits(rd, px, 8)

RECURSIVE readBytesLoop_storesNull(_, _, _, _)
\* slip: the null test is left out and the typed array stores null as 0
readBytesLoop_storesNull(rd, px, count, out) ==
    IF Len(out) >= count THEN [ok |-> TRUE, out |-> out, rd |-> rd]
    ELSE LET b == PixelBitReader_popByte(rd, px)
         IN  readBytesLoop_storesNull(b.rd, px, count,
                                      Append(out, IF b.ok THEN b.out ELSE 0))

RECURSIVE readBytesLoop(_, _, _, _)
\* for (i < count) { b = popByte(); if (b === null) throw ...; out[i] = b }
readBytesLoop(rd, px, count, out) ==
    IF Len(out) >= count THEN [ok |-> TRUE, out |-> out, rd |-> rd]
    ELSE LET b == PixelBitReader_popByte(rd, px)
         IN  IF ~b.ok
             THEN [ok |-> FALSE, out |-> out, rd |-> b.rd]
             ELSE readBytesLoop(b.rd, px, count, Append(out, b.out))

\* ok = FALSE stands for the throw "Not enough data in image while reading bytes"
PixelBitReader_readBytes(rd, px, count) == readBytesLoop(rd, px, count, << >>)

(* ------------------------------- strings ------------------------------- *)
\* a string is the sequence of its characters; the printable ASCII
\* characters are themselves (the two quotes, the backslash and the backtick are
\* written by their code points), U+0000 is NUL, and every other code point a
\* decoder can produce here is written Unprintable
ASCII == <<
    " ", "!", "U+0022", "#", "$", "%", "&", "U+0027", "(", ")", "*", "+", ",", "-", ".", "/",
    "0", "1", "2", "3", "4", "5", "6", "7", "8", "9", ":", ";", "<", "=", ">", "?",
    "@", "A", "B", "C", "D", "E", "F", "G", "H", "I", "J", "K", "L", "M", "N", "O",
    "P", "Q", "R", "S", "T", "U", "V", "W", "X", "Y", "Z", "[", "U+005C", "]", "^", "_",
    "U+0060", "a", "b", "c", "d", "e", "f", "g", "h", "i", "j", "k", "l", "m", "n", "o",
    "p", "q", "r", "s", "t", "u", "v", "w", "x", "y", "z", "{", "|", "}", "~">>

NUL == "NUL"
Unprintable == "U+FFFD"

DigitChars == <<"0", "1", "2", "3", "4", "5", "6", "7", "8", "9">>
UpperChars == <<"A", "B", "C", "D", "E", "F", "G", "H", "I", "J", "K", "L", "M",
                "N", "O", "P", "Q", "R", "S", "T", "U", "V", "W", "X", "Y", "Z">>
LowerChars == <<"a", "b", "c", "d", "e", "f", "g", "h", "i", "j", "k", "l", "m",
                "n", "o", "p", "q", "r", "s", "t", "u", "v", "w", "x", "y", "z">>

Range(seq) == {seq[i] : i \in 1..Len(seq)}

\* alphabet.indexOf(c): the first position, from 0, or -1
indexOf(alphabet, c) ==
    IF \E i \in 1..Len(alphabet) : alphabet[i] = c
    THEN (CHOOSE i \in 1..Len(alphabet) :
             /\ alphabet[i] = c
             /\ \A j \in 1..(i - 1) : alphabet[j] # c) - 1
    ELSE -1

\* c.charCodeAt(0)
charCodeAt(c) == IF c = NUL THEN 0 ELSE indexOf(ASCII, c) + 32

\* c.toLowerCase()
toLowerCase(c) ==
    IF c \in Range(UpperChars) THEN LowerChars[indexOf(UpperChars, c) + 1] ELSE c

\* new TextEncoder().encode(str), on ASCII text
TextEncoder_encode(str) == [i \in 1..Len(str) |-> charCodeAt(str[i])]

\* new TextDecoder().decode(bytes)
TextDecoder_decode(bytes) ==
    [i \in 1..Len(bytes) |->
        IF bytes[i] = 0 THEN NUL
        ELSE IF bytes[i] >= 32 /\ bytes[i] <= 126 THEN ASCII[bytes[i] - 31]
        ELSE Unprintable]

\* str.replace(re, empty) for the patterns /\0/g and, on text whose only
\* white space is the space, /\s+/g
Without(str, c) == SelectSeq(str, LAMBDA x : x # c)

RECURSIVE TrimLeft(_)
TrimLeft(str) ==
    IF str # << >> /\ Head(str) = " " THEN TrimLeft(Tail(str)) ELSE str

RECURSIVE TrimRight(_)
TrimRight(str) ==
    IF str # << >> /\ str[Len(str)] = " "
    THEN TrimRight(SubSeq(str, 1, Len(str) - 1))
    ELSE str

\* str.trim()
Trim(str) == TrimRight(TrimLeft(str))

\* str.padStart(n, c)
padStart(str, n, c) ==
    IF Len(str) >= n THEN str ELSE [i \in 1..(n - Len(str)) |-> c] \o str

\* str.startsWith(prefix)
startsWith(str, prefix) ==
    Len(str) >= Len(prefix) /\ SubSeq(str, 1, Len(prefix)) = prefix

(* ------------------------------ big numbers ---------------------------- *)
\* a BigInt is held as its digits in some base, most significant first;
\* the arithmetic below is exact, as BigInt arithmetic is
RECURSIVE StripZeros(_)
StripZeros(ds) ==
    IF ds # << >> /\ Head(ds) = 0 THEN StripZeros(Tail(ds)) ELSE ds

RECURSIVE LongDiv(_, _, _, _, _)
\* num / d and num % d for num written in base b
LongDiv(ds, b, d, q, r) ==
    IF ds = << >> THEN [q |-> q, r |-> r]
    ELSE LongDiv(Tail(ds), b, d, Append(q, (r * b + Head(ds)) \div d),
                 (r * b + Head(ds)) % d)

RECURSIVE Digits(_, _, _, _)
\* while (num > 0) { r = num % d; num = num / d; out = digit(r) + out }
Digits(ds, b, d, out) ==
    LET num == StripZeros(ds)
    IN  IF num = << >> THEN out
        ELSE LET s == LongDiv(num, b, d, << >>, 0)
             IN  Digits(s.q, b, d, <<s.r>> \o out)

\* hexToBytes(hex) for hex = num.toString(16) padded to an even length:
\* the bytes of num without leading zeros, one zero byte for num = 0
HexBytes(ds, b) ==
    LET bytes == Digits(ds, b, 256, << >>)
    IN  IF bytes = << >> THEN <<0>> ELSE bytes

RECURSIVE LeadingCount(_, _)
\* for (x of seq) { if (x === v) count++; else break; }
LeadingCount(seq, v) ==
    IF seq # << >> /\ Head(seq) = v THEN 1 + LeadingCount(Tail(seq), v) ELSE 0

(* ------------------------------- diban.js ------------------------------ *)
BASE58 == <<
    "1", "2", "3", "4", "5", "6", "7", "8", "9", "A", "B", "C", "D", "E", "F", "G",
    "H", "J", "K", "L", "M", "N", "P", "Q", "R", "S", "T", "U", "V", "W", "X", "Y",
    "Z", "a", "b", "c", "d", "e", "f", "g", "h", "i", "j", "k", "m", "n", "o", "p",
    "q", "r", "s", "t", "u", "v", "w", "x", "y", "z">>

BASE36 == <<
    "0", "1", "2", "3", "4", "5", "6", "7", "8", "9", "A", "B", "C", "D", "E", "F",
    "G", "H", "I", "J", "K", "L", "M", "N", "O", "P", "Q", "R", "S", "T", "U", "V",
    "W", "X", "Y", "Z">>

\* ok = FALSE stands for the throw "Invalid Base58 character"
base58ToBytes(str) ==
    LET vals == [i \in 1..Len(str) |-> indexOf(BASE58, str[i])]
    IN  IF \E i \in 1..Len(str) : vals[i] < 0
        THEN [ok |-> FALSE, bytes |-> << >>]
        ELSE [ok |-> TRUE,
              bytes |-> [i \in 1..LeadingCount(str, "1") |-> 0]
                            \o HexBytes(vals, 58)]

\* ok = FALSE stands for the SyntaxError of BigInt("0x")
bytesToBase58(bytes) ==
    LET ds  == Digits(bytes, 256, 58, << >>)
        out == [i \in 1..LeadingCount(bytes, 0) |-> "1"]
                   \o [i \in 1..Len(ds) |-> BASE58[ds[i] + 1]]
    IN  IF bytes = << >> THEN [ok |-> FALSE, str |-> << >>]
        ELSE [ok |-> TRUE, str |-> IF out = << >> THEN <<"1">> ELSE out]

\* bytesToBase36 of a non-empty array
bytesToBase36(bytes) ==
    LET ds == Digits(bytes, 256, 36, << >>)
    IN  IF ds = << >> THEN <<"0">>
        ELSE [i \in 1..Len(ds) |-> BASE36[ds[i] + 1]]

\* ok = FALSE stands for the throw "Invalid Base36 character"
base36ToBytes(str, byteLen) ==
    LET vals  == [i \in 1..Len(str) |-> indexOf(BASE36, str[i])]
        bytes == HexBytes(vals, 36)
    IN  IF \E i \in 1..Len(str) : vals[i] < 0
        THEN [ok |-> FALSE, bytes |-> << >>]
        ELSE [ok |-> TRUE,
              bytes |-> IF Len(bytes) < byteLen
                        THEN [i \in 1..(byteLen - Len(bytes)) |-> 0] \o bytes
                        ELSE bytes]

RECURSIVE DecimalDigits(_)
\* n.toString() for n >= 0, as digit values
DecimalDigits(n) ==
    IF n < 10 THEN <<n>> ELSE Append(DecimalDigits(n \div 10), n % 10)

RECURSIVE ibanConverted(_)
\* the first loop of ibanMod97: digits are kept, any other character c
\* becomes the decimal digits of c.charCodeAt(0) - 55; a negative number
\* leaves the sign -1 in the digits
ibanConverted(str) ==
    IF str = << >> THEN << >>
    ELSE (IF Head(str) \in Range(DigitChars)
          THEN <<indexOf(DigitChars, Head(str))>>
          ELSE IF charCodeAt(Head(str)) - 55 >= 0
          THEN DecimalDigits(charCodeAt(Head(str)) - 55)
          ELSE <<-1>>)
         \o ibanConverted(Tail(str))

RECURSIVE ibanRemainder(_, _)
\* remainder = (remainder * 10n + BigInt(d)) % 97n over the digits
ibanRemainder(ds, remainder) ==
    IF remainder < 0 \/ ds = << >> THEN remainder
    ELSE ibanRemainder(Tail(ds), (remainder * 10 + Head(ds)) % IbanModulus)

\* -1 stands for the SyntaxError of BigInt("-")
ibanMod97(str) ==
    LET converted == ibanConverted(str)
    IN  IF \E i \in 1..Len(converted) : converted[i] < 0 THEN -1
        ELSE ibanRemainder(converted, 0)

\* the code of the type detected from the prefix
detectAddressTypeDiban(dogeAddress) ==
    LET clean == Trim(dogeAddress)
        lower == [i \in 1..Len(clean) |-> toLowerCase(clean[i])]
    IN  IF startsWith(lower, <<"d", "o", "g", "e", "1">>) THEN <<"0", "2">>
        ELSE IF startsWith(clean, <<"9">>) \/ startsWith(clean, <<"A">>)
        THEN <<"0", "1">>
        ELSE <<"0", "0">>

\* payload of a witness address: its UTF-8 bytes, zero-padded on the left
\* or cut to PayloadBytes
FitPayload(payload) ==
    IF Len(payload) < PayloadBytes
    THEN [i \in 1..(PayloadBytes - Len(payload)) |-> 0] \o payload
    ELSE IF Len(payload) > PayloadBytes
    THEN SubSeq(payload, 1, PayloadBytes)
    ELSE payload

RECURSIVE GroupsOfFour(_)
\* final.match(/.{1,4}/g) joined by spaces
GroupsOfFour(str) ==
    IF Len(str) <= 4 THEN str
    ELSE SubSeq(str, 1, 4) \o <<" ">> \o GroupsOfFour(SubSeq(str, 5, Len(str)))

\* slip: the check digits are 97 - mod
dibanChecksum_from97(mod) ==
    IF IbanModulus - mod < 10
    THEN <<"0", DigitChars[IbanModulus - mod + 1]>>
    ELSE [i \in 1..2 |-> DigitChars[DecimalDigits(IbanModulus - mod)[i] + 1]]

\* 98n - mod as two digits
dibanChecksum(mod) ==
    IF IbanModulus + 1 - mod < 10
    THEN <<"0", DigitChars[IbanModulus + 1 - mod + 1]>>
    ELSE [i \in 1..2 |-> DigitChars[DecimalDigits(IbanModulus + 1 - mod)[i] + 1]]

\* ok = FALSE stands for a throw of base58ToBytes
encodeDIBAN(dogeAddress) ==
    LET code      == detectAddressTypeDiban(dogeAddress)
        decoded   == base58ToBytes(dogeAddress)
        payload   == IF code = <<"0", "2">>
                     THEN FitPayload(TextEncoder_encode(dogeAddress))
                     ELSE decoded.bytes
        payload36 == padStart(bytesToBase36(payload), Base36Chars, "0")
        temp      == <<"D", "O", "0", "0">> \o code \o payload36
        rearr     == SubSeq(temp, 5, Len(temp)) \o SubSeq(temp, 1, 4)
        final     == <<"D", "O">> \o dibanChecksum(ibanMod97(rearr))
                        \o code \o payload36
    IN  IF code # <<"0", "2">> /\ ~decoded.ok
        THEN [ok |-> FALSE, diban |-> << >>, code |-> code]
        ELSE [ok |-> TRUE, diban |-> GroupsOfFour(final), code |-> code]

\* /^DO[0-9]{2}[0-9]{2}[A-Z0-9]{39}$/i
dibanPattern(clean) ==
    /\ Len(clean) = 6 + Base36Chars
    /\ toLowerCase(clean[1]) = "d"
    /\ toLowerCase(clean[2]) = "o"
    /\ \A i \in 3..6 : clean[i] \in Range(DigitChars)
    /\ \A i \in 7..Len(clean) :
          clean[i] \in Range(DigitChars) \cup Range(UpperChars) \cup Range(LowerChars)

verifyDIBAN(diban) ==
    LET clean == Without(diban, " ")
        rearr == SubSeq(clean, 5, Len(clean)) \o SubSeq(clean, 1, 4)
    IN  dibanPattern(clean) /\ ibanMod97(rearr) = 1

\* ok = FALSE stands for a throw: "Invalid DIBAN checksum" or one of
\* base36ToBytes or bytesToBase58
decodeDIBAN(diban) ==
    LET clean     == Without(diban, " ")
        typeCode  == SubSeq(clean, 5, 6)
        payload36 == SubSeq(clean, 7, Len(clean))
        payload   == base36ToBytes(payload36, PayloadBytes)
        text      == Trim(Without(TextDecoder_decode(payload.bytes), NUL))
        base58    == bytesToBase58(payload.bytes)
    IN  IF ~verifyDIBAN(diban) \/ ~payload.ok
        THEN [ok |-> FALSE, address |-> << >>, code |-> << >>]
        ELSE IF typeCode = <<"0", "2">>
        THEN [ok |-> TRUE, address |-> text, code |-> typeCode]
        ELSE [ok |-> base58.ok, address |-> base58.str, code |-> typeCode]

(* ------------------------------ dogewords.js --------------------------- *)
WORD_BASE64 == <<
    "joy", "love", "hope", "calm", "warm", "kind", "nice", "cool",
    "safe", "sure", "true", "wise", "bold", "free", "pure", "rich",
    "soft", "sweet", "bright", "clear", "fresh", "gentle", "happy", "lucky",
    "magic", "peace", "quiet", "rapid", "smooth", "strong", "sunny", "swift",
    "trust", "vital", "zest", "zen", "ace", "art", "beam", "bliss",
    "bloom", "brave", "cheer", "charm", "dream", "ease", "faith", "flame",
    "flash", "glow", "grace", "heart", "honor", "light", "mercy", "mirth",
    "noble", "pride", "smile", "spark", "unity", "valor", "vivid", "whole">>

CHECKSUM_WORDS == <<
    "valid", "check", "proof", "solid", "sound", "sure", "true", "good">>

\* TYPE_WORDS, as the keys and their words in insertion order
TYPE_KEYS == << <<"0", "0">>, <<"0", "1">>, <<"0", "2">>, <<"0", "3">> >>
TYPE_WORDS == <<"dog", "safe", "fast", "time">>

\* base58ToBytesLocal: base58ToBytes of diban.js when that is loaded, else
\* the local copy, which returns an empty array for ""
base58ToBytesLocal(str, loaded) ==
    IF ~loaded /\ str = << >> THEN [ok |-> TRUE, bytes |-> << >>]
    ELSE base58ToBytes(str)

\* bytesToBase58Local: the local copy is the text of bytesToBase58
bytesToBase58Local(bytes, loaded) == bytesToBase58(bytes)

\* a word string: words.join(' ')
RECURSIVE JoinWords(_)
JoinWords(ws) ==
    IF Len(ws) <= 1 THEN ws
    ELSE <<Head(ws), " ">> \o JoinWords(Tail(ws))

\* wordString.trim().split(/\s+/).filter(w => w.length > 0)
SplitWords(wordString) == SelectSeq(wordString, LAMBDA w : w # " ")

RECURSIVE bytesToWordsFrom(_, _)
\* the two parts of bytesToWords from position i: whole groups of 3 bytes,
\* then the 2 or 1 bytes that remain
bytesToWordsFrom(bytes, i) ==
    IF i + 2 < Len(bytes)
    THEN LET combined == bytes[i + 1] * 65536 + bytes[i + 2] * 256 + bytes[i + 3]
         IN  <<WORD_BASE64[((combined \div 262144) % 64) + 1],
               WORD_BASE64[((combined \div 4096) % 64) + 1],
               WORD_BASE64[((combined \div 64) % 64) + 1],
               WORD_BASE64[(combined % 64) + 1]>>
             \o bytesToWordsFrom(bytes, i + 3)
    ELSE IF i + 1 < Len(bytes)
    THEN LET combined == bytes[i + 1] * 256 + bytes[i + 2]
         IN  <<WORD_BASE64[((combined \div 4096) % 64) + 1],
               WORD_BASE64[((combined \div 64) % 64) + 1],
               WORD_BASE64[(combined % 64) + 1]>>
    ELSE IF i < Len(bytes)
    THEN <<WORD_BASE64[((bytes[i + 1] \div 4) % 64) + 1],
           WORD_BASE64[(((bytes[i + 1] % 4) * 16) % 64) + 1]>>
    ELSE << >>

\* the word string of the bytes
bytesToWords(bytes) == JoinWords(bytesToWordsFrom(bytes, 0))

RECURSIVE wordsToBytesFrom(_, _)
\* the decoding loops of wordsToBytes from word i; ok = FALSE stands for
\* the throw "Invalid word in payload"
wordsToBytesFrom(ws, i) ==
    LET idx(k) == indexOf(WORD_BASE64, ws[i + k])
    IN  IF i + 3 < Len(ws)
        THEN LET combined == idx(1) * 262144 + idx(2) * 4096 + idx(3) * 64 + idx(4)
                 rest == wordsToBytesFrom(ws, i + 4)
             IN  IF idx(1) < 0 \/ idx(2) < 0 \/ idx(3) < 0 \/ idx(4) < 0
                 THEN [ok |-> FALSE, bytes |-> << >>]
                 ELSE [ok |-> rest.ok,
                       bytes |-> <<(combined \div 65536) % 256,
                                   (combined \div 256) % 256,
                                   combined % 256>> \o rest.bytes]
        ELSE IF i + 2 < Len(ws)
        THEN LET combined == idx(1) * 4096 + idx(2) * 64 + idx(3)
             IN  IF idx(1) < 0 \/ idx(2) < 0 \/ idx(3) < 0
                 THEN [ok |-> FALSE, bytes |-> << >>]
                 ELSE [ok |-> TRUE,
                       bytes |-> <<(combined \div 256) % 256, combined % 256>>]
        ELSE IF i + 1 < Len(ws)
        THEN IF idx(1) < 0 \/ idx(2) < 0
             THEN [ok |-> FALSE, bytes |-> << >>]
             ELSE [ok |-> TRUE,
                   bytes |-> <<(idx(1) * 4 + (idx(2) \div 16)) % 256>>]
        ELSE [ok |-> TRUE, bytes |-> << >>]

\* expectedLength = -1 stands for null; ok = FALSE stands for a throw
wordsToBytes(wordString, expectedLength) ==
    LET r == wordsToBytesFrom(SplitWords(wordString), 0)
    IN  IF ~r.ok THEN r
        ELSE IF expectedLength >= 0 /\ Len(r.bytes) > expectedLength
        THEN [ok |-> TRUE, bytes |-> SubSeq(r.bytes, 1, expectedLength)]
        ELSE IF expectedLength >= 0 /\ Len(r.bytes) < expectedLength
        THEN [ok |-> FALSE, bytes |-> << >>]
        ELSE r

RECURSIVE SumBytes(_)
SumBytes(data) == IF data = << >> THEN 0 ELSE Head(data) + SumBytes(Tail(data))

\* sum % CHECKSUM_WORDS.length
calculateChecksum(data) == SumBytes(data) % Len(CHECKSUM_WORDS)

\* ok = FALSE stands for a throw: an invalid Base58 character or "Invalid
\* Dogecoin address length"
encodeDogeWords(dogeAddress, loaded) ==
    LET code    == detectAddressTypeDiban(dogeAddress)
        decoded == base58ToBytesLocal(dogeAddress, loaded)
        payload == IF code = <<"0", "2">>
                   THEN FitPayload(TextEncoder_encode(dogeAddress))
                   ELSE decoded.bytes
        typeWord == TYPE_WORDS[indexOf(TYPE_KEYS, code) + 1]
        checksumWord == CHECKSUM_WORDS[calculateChecksum(payload) + 1]
    IN  IF code # <<"0", "2">> /\ (~decoded.ok \/ Len(payload) # PayloadBytes)
        THEN [ok |-> FALSE, words |-> << >>, code |-> code]
        ELSE [ok |-> TRUE,
              words |-> <<typeWord, " ">> \o bytesToWords(payload)
                           \o <<" ", checksumWord>>,
              code |-> code]

verifyDogeWords(wordAddress) ==
    LET ws == SplitWords(wordAddress)
        typeWord == ws[1]
        checksumWord == ws[Len(ws)]
        payloadWords == SubSeq(ws, 2, Len(ws) - 1)
        payloadBytes == wordsToBytes(JoinWords(payloadWords), PayloadBytes)
    IN  /\ Len(ws) >= 3
        /\ indexOf(TYPE_WORDS, typeWord) >= 0
        /\ indexOf(CHECKSUM_WORDS, checksumWord) >= 0
        /\ payloadBytes.ok
        /\ calculateChecksum(payloadBytes.bytes)
              = indexOf(CHECKSUM_WORDS, checksumWord)

\* ok = FALSE stands for a throw
decodeDogeWords(wordAddress, loaded) ==
    LET ws == SplitWords(wordAddress)
        typeCode == TYPE_KEYS[indexOf(TYPE_WORDS, ws[1]) + 1]
        payloadBytes == wordsToBytes(JoinWords(SubSeq(ws, 2, Len(ws) - 1)),
                                     PayloadBytes)
        text   == Trim(Without(TextDecoder_decode(payloadBytes.bytes), NUL))
        base58 == bytesToBase58Local(payloadBytes.bytes, loaded)
    IN  IF ~verifyDogeWords(wordAddress)
        THEN [ok |-> FALSE, address |-> << >>, code |-> << >>]
        ELSE IF typeCode = <<"0", "2">>
        THEN [ok |-> TRUE, address |-> text, code |-> typeCode]
        ELSE [ok |-> base58.ok, address |-> base58.str, code |-> typeCode]

(* ------------------------- inputs of the model ------------------------- *)
\* pixels needed for a stream of totalBytes bytes: Math.ceil(totalBytes*8/3)
PixelsFor(totalBytes) == (totalBytes * 8 + 2) \div 3

\* three carrier textures: all channels 0, all channels 255, and a mixed
\* one whose low bits and alpha vary from channel to channel
Textures == {1, 2, 3}

TexChannel(tex, i) ==
    CASE tex = 1 -> 0
      [] tex = 2 -> 255
      [] OTHER   -> (i * 37 + 11) % 256

\* an image of n pixels that carries no frame
Blank(tex, n) == [i \in 1..(4 * n) |-> TexChannel(tex, i)]

\* bit j (from 0) of a byte sequence read most-significant bit first
StreamBit(bytes, j) == BitOf(bytes[(j \div 8) + 1], 7 - (j % 8))

\* an image of n pixels whose R,G,B low bits hold the bits of `bytes`, three
\* per pixel in buffer order; every other bit is the texture's
Embed(tex, n, bytes) ==
    [i \in 1..(4 * n) |->
        LET j == 3 * ((i - 1) \div 4) + ((i - 1) % 4)
        IN  IF (i % 4) # 0 /\ j < 8 * Len(bytes)
            THEN SetLowBit(TexChannel(tex, i), StreamBit(bytes, j))
            ELSE TexChannel(tex, i)]

ByteTable == <<26, 43, 60, 0, 255, 100, 209, 1>>
Seeds == {0, 3, 6}

PayloadOf(len, seed) ==
    [k \in 1..len |-> ByteTable[((seed + k - 1) % Len(ByteTable)) + 1]]

\* payloads handed to the encoder or stored in a legacy frame; seed 0 and
\* length 3 is 1A 2B 3C
Payloads == {PayloadOf(len, seed) : len \in 0..MaxPayloadLen, seed \in Seeds}

\* MAGIC | LEN(2, big-endian) | PAYLOAD, the frame the v1 encoder builds
LegacyFrame(p) ==
    MAGIC_MARKER \o <<(Len(p) \div 256) % 256, Len(p) % 256>> \o p

\* images offered to the decoder: blank ones, and ones that hold a stream,
\* cut one pixel short, exact, or with pixels to spare.  The streams are
\* legacy frames, MAGIC | b0 b1 b2 | filler for every shape of the three
\* bytes after the magic, and streams whose first four bytes are not the
\* magic, with different tails
DecodeImages ==
    LET HeaderProbes ==
            {MAGIC_MARKER \o <<b0, b1, b2>> \o PayloadOf(MaxPayloadLen, 0) :
                b0 \in {0, 1, 2}, b1 \in {0, 1, 7, 8},
                b2 \in {0, 1, 208, 209, 255}}
        BadMagicStreams ==
            {[MAGIC_MARKER EXCEPT ![k] = v] \o tail :
                k \in 1..4, v \in {0, 70},
                tail \in {<< >>, <<0, 0, 3, 26, 43, 60>>}}
        Streams == {LegacyFrame(p) : p \in Payloads}
                       \cup HeaderProbes \cup BadMagicStreams
    IN  {Blank(tex, n) : tex \in Textures, n \in {0, 10, 11, 12 + ExtraPixels}}
        \cup UNION {{Embed(tex, PixelsFor(Len(st)) + d, st) :
                         tex \in Textures, d \in {-1, 0, ExtraPixels}} :
                            st \in Streams}

(* -------------------------------- state -------------------------------- *)
VARIABLES
    pixels,          \* imageData.data of the running operation
    pixels0,         \* the buffer as the running operation received it
    carrier,         \* the buffer of the image file first loaded
    pc,              \* position in encodeAddressInImage / decodeAddressFromImage
    dibanLoaded,     \* whether diban.js defines the global bytesToBase58
    dataTypeByteEnc, \* encode: dataTypeByte
    dataBytesEnc,    \* encode: dataBytes
    full,            \* encode: the frame
    encodeLSBCalled, \* encode: encodeLSB has been entered
    encError,        \* encode: message of the error thrown, "" if none
    reader, reader2, reader3,   \* decode: the three cursors
    magic, peek,     \* decode: bytes read
    isNewFormat, dataTypeByte, dataLength,  \* decode: classification
    dataBytes,       \* decode: dataBytes / dataBytesOld once read
    outcome,         \* decode: what the promise settled with
    lastOutcome,     \* outcome of the previous decode of this carrier
    decodes,         \* decode runs made on this carrier
    bq,              \* a BitQueue used on its own: this.bits
    bqPushed,        \* every bit pushed into bq so far, in push order
    bqPopped,        \* how many bits popBits has removed from bq so far
    bqRet,           \* the last call on bq: its arguments, return and the bits before it
    dogeAddress,     \* the address handed to encodeDIBAN and encodeDogeWords
    dibanPc,         \* how far the D-IBAN calls on dogeAddress have got
    dibanResult,     \* return of encodeDIBAN(dogeAddress)
    dibanValid,      \* return of verifyDIBAN(dibanResult.diban)
    dibanDecoded,    \* return of decodeDIBAN(dibanResult.diban)
    wordsPc,         \* how far the DogeWords calls on dogeAddress have got
    wordsResult,     \* return of encodeDogeWords(dogeAddress)
    wordsValid,      \* return of verifyDogeWords(wordsResult.words)
    wordsDecoded,    \* return of decodeDogeWords(wordsResult.words)
    cur,             \* cursors opened on one buffer: pixelIndex and q of each
    curBits,         \* the bits each cursor has handed to its caller, in order
    curPopped,       \* how many bits each cursor's popBits has removed from q
    curFailed,       \* per cursor: "no", or how a call on it failed, "null" or "threw"
    curRet,          \* the last call on a cursor: arguments, return, cursor before
    inputText,       \* the text handed to encodeAddressInImage
    shown            \* what decodeAddressFromImageUI has put on the page

encVars == <<dataTypeByteEnc, dataBytesEnc, full, encodeLSBCalled, encError>>
decVars == <<reader, reader2, reader3, magic, peek,
             isNewFormat, dataTypeByte, dataLength, dataBytes,
             outcome, lastOutcome, decodes>>
vars == <<pixels, pixels0, carrier, pc, dibanLoaded,
          dataTypeByteEnc, dataBytesEnc, full, encodeLSBCalled, encError,
          reader, reader2, reader3, magic, peek,
          isNewFormat, dataTypeByte, dataLength, dataBytes,
          outcome, lastOutcome, decodes,
          bq, bqPushed, bqPopped, bqRet,
          dogeAddress, dibanPc, dibanResult, dibanValid, dibanDecoded,
          wordsPc, wordsResult, wordsValid, wordsDecoded,
          cur, curBits, curPopped, curFailed, curRet,
          inputText, shown>>

\* the state of the library objects used outside encode and decode
bqVars == <<bq, bqPushed, bqPopped, bqRet>>
codecVars == <<dogeAddress, dibanPc, dibanResult, dibanValid, dibanDecoded,
               wordsPc, wordsResult, wordsValid, wordsDecoded>>
cursorVars == <<cur, curBits, curPopped, curFailed, curRet>>
sideVars == <<bqVars, codecVars, cursorVars, inputText, shown>>

\* a cursor that has not been constructed
NoReader == [pixelIndex |-> -1, q |-> << >>]

NoOutcome ==
    [kind |-> "none", error |-> "", dataType |-> "", format |-> "",
     typeTag |-> 0, length |-> 0, payload |-> << >>]

ErrorOutcome(msg) ==
    [kind |-> "error", error |-> msg, dataType |-> "", format |-> "",
     typeTag |-> 0, length |-> 0, payload |-> << >>]

NotEnoughData == "Not enough data in image while reading bytes"
MagicNotFound == "Magic marker not found"
InvalidLength == "Invalid data length"
BigIntSyntax == "SyntaxError: Cannot convert 0x to a BigInt"
ImageTooSmall == "Image too small"
ImageTooSmallForData == "Image too small for data"

\* a BitQueue just constructed, no call made on it yet
BitQueueIdle ==
    /\ bq = BitQueue_new
    /\ bqPushed = << >>
    /\ bqPopped = 0
    /\ bqRet = [op |-> "none", n |-> 0, ok |-> TRUE, out |-> 0,
                before |-> << >>]

\* no encode or decode has been started
StegIdle ==
    /\ pixels = << >>
    /\ pixels0 = << >>
    /\ carrier = << >>
    /\ pc = "start"
    /\ dataTypeByteEnc = 0
    /\ dataBytesEnc = << >>
    /\ full = << >>
    /\ encodeLSBCalled = FALSE
    /\ encError = ""
    /\ reader = NoReader
    /\ reader2 = NoReader
    /\ reader3 = NoReader
    /\ magic = << >>
    /\ peek = << >>
    /\ isNewFormat = FALSE
    /\ dataTypeByte = 0
    /\ dataLength = 0
    /\ dataBytes = << >>
    /\ outcome = NoOutcome
    /\ lastOutcome = NoOutcome
    /\ decodes = 0

\* no call of the address codecs yet
CodecStart ==
    LET NoEncoded == [ok |-> FALSE, diban |-> << >>, words |-> << >>,
                      code |-> << >>]
        NoDecoded == [ok |-> FALSE, address |-> << >>, code |-> << >>]
    IN  /\ dibanPc = "start"
        /\ dibanResult = NoEncoded
        /\ dibanValid = FALSE
        /\ dibanDecoded = NoDecoded
        /\ wordsPc = "start"
        /\ wordsResult = NoEncoded
        /\ wordsValid = FALSE
        /\ wordsDecoded = NoDecoded

CodecIdle ==
    /\ dogeAddress = << >>
    /\ CodecStart

\* the two cursors a caller opens on one buffer
Cursors == {1, 2}

\* no cursor has been constructed and no call made on one; no text has
\* been entered and resultDiv is as the page loads it
CursorIdle ==
    /\ cur = [c \in Cursors |-> NoReader]
    /\ curBits = [c \in Cursors |-> << >>]
    /\ curPopped = [c \in Cursors |-> 0]
    /\ curFailed = [c \in Cursors |-> "no"]
    /\ curRet = [cursor |-> 0, op |-> "none", n |-> 0, ok |-> TRUE,
                 out |-> << >>, before |-> NoReader]
    /\ inputText = << >>
    /\ shown = [class |-> "none", address |-> << >>, typeName |-> "",
                message |-> ""]

Init ==
    /\ dibanLoaded \in BOOLEAN
    /\ StegIdle
    /\ BitQueueIdle
    /\ CodecIdle
    /\ CursorIdle

(* ------------------------ payload interpretation ----------------------- *)
\* bytesToBase58Steg: with diban.js loaded it is bytesToBase58, whose
\* BigInt("0x" + hex) throws a SyntaxError on an empty array; the local
\* version returns "" for an empty array.  TRUE = it returns.
bytesToBase58Steg_returns(bytes, loaded) == ~(loaded /\ bytes = << >>)

RECURSIVE TrimStart(_)
\* the leading part of String.prototype.trim on ASCII white space
TrimStart(bytes) ==
    IF bytes # << >> /\ Head(bytes) \in {9, 10, 11, 12, 13, 32}
    THEN TrimStart(Tail(bytes))
    ELSE bytes

\* new TextDecoder().decode(bytes).trim().startsWith("doge1")
StartsWithDoge1(bytes) ==
    LET t == TrimStart(bytes)
    IN  Len(t) >= 5 /\ SubSeq(t, 1, 5) = <<100, 111, 103, 101, 49>>

\* the address returns of both branches: UTF-8 first, then Base58
AddressOutcome(format, typeTag, bytes, loaded) ==
    IF StartsWithDoge1(bytes) \/ bytesToBase58Steg_returns(bytes, loaded)
    THEN [kind |-> "result", error |-> "", dataType |-> "address",
          format |-> format, typeTag |-> typeTag,
          length |-> Len(bytes), payload |-> bytes]
    ELSE ErrorOutcome(BigIntSyntax)

\* the private-key return of the modern branch
PrivateKeyOutcome(typeTag, bytes, loaded) ==
    IF bytesToBase58Steg_returns(bytes, loaded)
    THEN [kind |-> "result", error |-> "", dataType |-> "private_key",
          format |-> "modern", typeTag |-> typeTag,
          length |-> Len(bytes), payload |-> bytes]
    ELSE ErrorOutcome(BigIntSyntax)

(* ------------------------- encodeAddressInImage ------------------------ *)
\* [MAGIC (4)] + [TYPE (1)] + [LENGTH (2)] + [DATA]
BuildFrame(typeByte, data) ==
    MAGIC_MARKER
        \o <<typeByte, (Len(data) \div 256) % 256, Len(data) % 256>>
        \o data

\* slip: Math.floor in place of Math.ceil
pixelsNeeded_floor(frame) == (Len(frame) * 8) \div 3

\* Math.ceil(totalBits / 3) with totalBits = full.length * 8
pixelsNeeded(frame) == ((Len(frame) * 8) + 2) \div 3

\* slip: >= in place of >
CapacityFails_offByOne(frame, px) == pixelsNeeded(frame) >= Len(px) \div 4

\* the capacity test: TRUE = the "Image too small" error is thrown
CapacityFails(frame, px) == pixelsNeeded(frame) > Len(px) \div 4

\* the image is drawn, the input is turned into a type byte and data bytes,
\* and the frame is assembled.  The canvas steps belong to the raster
\* collaborator; the buffer they hand over is drawn from images of any
\* channel values: opaque white (texture 2, what a canvas filled with
\* #FFFFFF yields), all zero, or mixed.  The input text is taken past
\* detectDataType and the byte codec, as its type byte and data bytes.
EncodeBegin ==
    /\ pc = "start"
    /\ \E t \in {0, 1}, p \in Payloads :
         \E image \in {Blank(tex, n) : tex \in Textures,
                        n \in {0} \cup ((PixelsFor(7 + Len(p)) - 2)
                                   ..(PixelsFor(7 + Len(p)) + ExtraPixels))} :
            \* detectPrivateKeyType accepts 51 or 52 Base58 characters only,
            \* whose bytes are never empty; "" is typed as an address
            /\ t = 1 => Len(p) >= 1
            /\ pixels' = image
            /\ pixels0' = image
            /\ carrier' = image
            /\ dataTypeByteEnc' = t
            /\ dataBytesEnc' = p
            /\ full' = BuildFrame(t, p)
    /\ pc' = "enc_check"
    /\ UNCHANGED <<dibanLoaded, encodeLSBCalled, encError>>
    /\ UNCHANGED decVars
    /\ UNCHANGED sideVars

\* slip: encodeLSB is run before the capacity test
EncodeCheckCapacity_writesFirst ==
    /\ pc = "enc_check"
    /\ pixels' = encodeLSB(pixels, full).pixels
    /\ encodeLSBCalled' = TRUE
    /\ IF CapacityFails(full, pixels)
       THEN /\ encError' = ImageTooSmall
            /\ pc' = "enc_error"
       ELSE /\ encError' = encError
            /\ pc' = "enc_write"
    /\ UNCHANGED <<pixels0, carrier, dibanLoaded, dataTypeByteEnc, dataBytesEnc, full>>
    /\ UNCHANGED decVars
    /\ UNCHANGED sideVars

EncodeCheckCapacity ==
    /\ pc = "enc_check"
    /\ IF CapacityFails(full, pixels)
       THEN /\ encError' = ImageTooSmall
            /\ pc' = "enc_error"
       ELSE /\ encError' = encError
            /\ pc' = "enc_write"
    /\ UNCHANGED <<pixels, pixels0, carrier, dibanLoaded,
                   dataTypeByteEnc, dataBytesEnc, full, encodeLSBCalled>>
    /\ UNCHANGED decVars
    /\ UNCHANGED sideVars

EncodeWrite ==
    /\ pc = "enc_write"
    /\ LET r == encodeLSB(pixels, full)
       IN  /\ pixels' = r.pixels
           /\ encError' = IF r.ok THEN encError ELSE ImageTooSmallForData
           /\ pc' = IF r.ok THEN "enc_done" ELSE "enc_error"
    /\ encodeLSBCalled' = TRUE
    /\ UNCHANGED <<pixels0, carrier, dibanLoaded, dataTypeByteEnc, dataBytesEnc, full>>
    /\ UNCHANGED decVars
    /\ UNCHANGED sideVars

(* ------------------------ decodeAddressFromImage ----------------------- *)
ResetDecodeLocals ==
    /\ reader2' = NoReader
    /\ reader3' = NoReader
    /\ magic' = << >>
    /\ peek' = << >>
    /\ isNewFormat' = FALSE
    /\ dataTypeByte' = 0
    /\ dataLength' = 0
    /\ dataBytes' = << >>
    /\ outcome' = NoOutcome

\* decode of an image file: const reader = new PixelBitReader(pixels)
DecodeLoad ==
    /\ pc = "start"
    /\ \E image \in DecodeImages :
          /\ pixels' = image
          /\ pixels0' = image
          /\ carrier' = image
          /\ reader' = PixelBitReader_new(image)
    /\ ResetDecodeLocals
    /\ lastOutcome' = NoOutcome
    /\ decodes' = 1
    /\ pc' = "dec_magic"
    /\ UNCHANGED dibanLoaded
    /\ UNCHANGED encVars
    /\ UNCHANGED sideVars

\* slip: the cursor of the previous call is kept instead of a new one
DecodeAgain_keepsReader ==
    /\ pc \in {"enc_done", "dec_done"}
    /\ decodes < MaxDecodes
    /\ pixels0' = pixels
    /\ reader' = IF reader = NoReader THEN PixelBitReader_new(pixels) ELSE reader
    /\ ResetDecodeLocals
    /\ lastOutcome' = outcome
    /\ decodes' = decodes + 1
    /\ pc' = "dec_magic"
    /\ UNCHANGED <<pixels, carrier, dibanLoaded>>
    /\ UNCHANGED encVars
    /\ UNCHANGED sideVars

\* decode of the image the encoder produced, or of the same image again
DecodeAgain ==
    /\ pc \in {"enc_done", "dec_done"}
    /\ decodes < MaxDecodes
    /\ pixels0' = pixels
    /\ reader' = PixelBitReader_new(pixels)
    /\ ResetDecodeLocals
    /\ lastOutcome' = outcome
    /\ decodes' = decodes + 1
    /\ pc' = "dec_magic"
    /\ UNCHANGED <<pixels, carrier, dibanLoaded>>
    /\ UNCHANGED encVars
    /\ UNCHANGED sideVars

\* slip: the loop stops one byte early
MagicMismatch_firstThree(m) == \E i \in 1..3 : m[i] # MAGIC_MARKER[i]

\* the loop that compares the four bytes read with MAGIC_MARKER
MagicMismatch(m) == \E i \in 1..4 : m[i] # MAGIC_MARKER[i]

\* 1) read the magic and compare it
DecodeReadMagic ==
    /\ pc = "dec_magic"
    /\ LET r == PixelBitReader_readBytes(reader, pixels, 4)
       IN  /\ reader' = r.rd
           /\ IF ~r.ok
              THEN /\ magic' = magic
                   /\ outcome' = ErrorOutcome(NotEnoughData)
                   /\ pc' = "dec_done"
              ELSE /\ magic' = r.out
                   /\ IF MagicMismatch(r.out)
                      THEN /\ outcome' = ErrorOutcome(MagicNotFound)
                           /\ pc' = "dec_done"
                      ELSE /\ outcome' = outcome
                           /\ pc' = "dec_peek"
    /\ UNCHANGED <<pixels, pixels0, carrier, dibanLoaded, reader2, reader3, peek,
                   isNewFormat, dataTypeByte, dataLength, dataBytes,
                   lastOutcome, decodes>>
    /\ UNCHANGED encVars
    /\ UNCHANGED sideVars

\* 2) a fresh reader2 skips the magic and reads the three bytes to inspect
DecodePeek ==
    /\ pc = "dec_peek"
    /\ LET skip == PixelBitReader_readBytes(PixelBitReader_new(pixels), pixels, 4)
           r == PixelBitReader_readBytes(skip.rd, pixels, 3)
       IN  IF ~skip.ok
           THEN /\ reader2' = skip.rd
                /\ peek' = peek
                /\ outcome' = ErrorOutcome(NotEnoughData)
                /\ pc' = "dec_done"
           ELSE /\ reader2' = r.rd
                /\ IF ~r.ok
                   THEN /\ peek' = peek
                        /\ outcome' = ErrorOutcome(NotEnoughData)
                        /\ pc' = "dec_done"
                   ELSE /\ peek' = r.out
                        /\ outcome' = outcome
                        /\ pc' = "dec_classify"
    /\ UNCHANGED <<pixels, pixels0, carrier, dibanLoaded, reader, reader3, magic,
                   isNewFormat, dataTypeByte, dataLength, dataBytes,
                   lastOutcome, decodes>>
    /\ UNCHANGED encVars
    /\ UNCHANGED sideVars

\* (lenHi << 8) | lenLo
possibleLen(pk) == pk[2] * 256 + pk[3]

\* slip: < 2000 in place of <= 2000
IsNewFormat_strictUpper(pk) ==
    /\ (pk[1] = 0 \/ pk[1] = 1)
    /\ possibleLen(pk) >= 1
    /\ possibleLen(pk) < MAX_DATA_LENGTH

\* the condition of the if that accepts the new format
IsNewFormat(pk) ==
    /\ (pk[1] = 0 \/ pk[1] = 1)
    /\ possibleLen(pk) >= 1
    /\ possibleLen(pk) <= MAX_DATA_LENGTH

\* slip: the new-format branch leaves dataTypeByte at its default 0x00
DecodeClassify_dropsType ==
    /\ pc = "dec_classify"
    /\ IF IsNewFormat(peek)
       THEN /\ isNewFormat' = TRUE
            /\ dataTypeByte' = 0
            /\ dataLength' = possibleLen(peek)
            /\ pc' = "dec_modern"
       ELSE /\ isNewFormat' = FALSE
            /\ dataTypeByte' = 0
            /\ dataLength' = peek[1] * 256 + peek[2]
            /\ pc' = "dec_legacy"
    /\ UNCHANGED <<pixels, pixels0, carrier, dibanLoaded, reader, reader2, reader3,
                   magic, peek, dataBytes, outcome, lastOutcome, decodes>>
    /\ UNCHANGED encVars
    /\ UNCHANGED sideVars

\* the assignments of both branches of the format decision
DecodeClassify ==
    /\ pc = "dec_classify"
    /\ IF IsNewFormat(peek)
       THEN /\ isNewFormat' = TRUE
            /\ dataTypeByte' = peek[1]
            /\ dataLength' = possibleLen(peek)
            /\ pc' = "dec_modern"
       ELSE /\ isNewFormat' = FALSE
            /\ dataTypeByte' = 0
            /\ dataLength' = peek[1] * 256 + peek[2]
            /\ pc' = "dec_legacy"
    /\ UNCHANGED <<pixels, pixels0, carrier, dibanLoaded, reader, reader2, reader3,
                   magic, peek, dataBytes, outcome, lastOutcome, decodes>>
    /\ UNCHANGED encVars
    /\ UNCHANGED sideVars

\* slip: reader3 skips three bytes after the magic, as reader2 did
DecodeLegacy_skipsThree ==
    /\ pc = "dec_legacy"
    /\ LET s1 == PixelBitReader_readBytes(PixelBitReader_new(pixels), pixels, 4)
           s2 == PixelBitReader_readBytes(s1.rd, pixels, 3)
           r == PixelBitReader_readBytes(s2.rd, pixels, dataLength)
       IN  IF ~s1.ok
           THEN /\ reader3' = s1.rd
                /\ dataBytes' = dataBytes
                /\ outcome' = ErrorOutcome(NotEnoughData)
           ELSE IF ~s2.ok
           THEN /\ reader3' = s2.rd
                /\ dataBytes' = dataBytes
                /\ outcome' = ErrorOutcome(NotEnoughData)
           ELSE /\ reader3' = r.rd
                /\ dataBytes' = IF r.ok THEN r.out ELSE dataBytes
                /\ outcome' = IF ~r.ok
                              THEN ErrorOutcome(NotEnoughData)
                              ELSE AddressOutcome("legacy", dataTypeByte,
                                                  r.out, dibanLoaded)
    /\ pc' = "dec_done"
    /\ UNCHANGED <<pixels, pixels0, carrier, dibanLoaded, reader, reader2, magic, peek,
                   isNewFormat, dataTypeByte, dataLength, lastOutcome, decodes>>
    /\ UNCHANGED encVars
    /\ UNCHANGED sideVars

\* old format: reader3 skips magic and length, reads the data, returns an address
DecodeLegacy ==
    /\ pc = "dec_legacy"
    /\ LET s1 == PixelBitReader_readBytes(PixelBitReader_new(pixels), pixels, 4)
           s2 == PixelBitReader_readBytes(s1.rd, pixels, 2)
           r == PixelBitReader_readBytes(s2.rd, pixels, dataLength)
       IN  IF ~s1.ok
           THEN /\ reader3' = s1.rd
                /\ dataBytes' = dataBytes
                /\ outcome' = ErrorOutcome(NotEnoughData)
           ELSE IF ~s2.ok
           THEN /\ reader3' = s2.rd
                /\ dataBytes' = dataBytes
                /\ outcome' = ErrorOutcome(NotEnoughData)
           ELSE /\ reader3' = r.rd
                /\ dataBytes' = IF r.ok THEN r.out ELSE dataBytes
                /\ outcome' = IF ~r.ok
                              THEN ErrorOutcome(NotEnoughData)
                              ELSE AddressOutcome("legacy", dataTypeByte,
                                                  r.out, dibanLoaded)
    /\ pc' = "dec_done"
    /\ UNCHANGED <<pixels, pixels0, carrier, dibanLoaded, reader, reader2, magic, peek,
                   isNewFormat, dataTypeByte, dataLength, lastOutcome, decodes>>
    /\ UNCHANGED encVars
    /\ UNCHANGED sideVars

\* new format: length check, data read from reader2, result by type byte
DecodeModern ==
    /\ pc = "dec_modern"
    /\ isNewFormat
    /\ IF dataLength < 1 \/ dataLength > MAX_DATA_LENGTH
       THEN /\ reader2' = reader2
            /\ dataBytes' = dataBytes
            /\ outcome' = ErrorOutcome(InvalidLength)
       ELSE LET r == PixelBitReader_readBytes(reader2, pixels, dataLength)
            IN  /\ reader2' = r.rd
                /\ dataBytes' = IF r.ok THEN r.out ELSE dataBytes
                /\ outcome' =
                     IF ~r.ok THEN ErrorOutcome(NotEnoughData)
                     ELSE IF dataTypeByte = 1
                     THEN PrivateKeyOutcome(dataTypeByte, r.out, dibanLoaded)
                     ELSE AddressOutcome("modern", dataTypeByte, r.out, dibanLoaded)
    /\ pc' = "dec_done"
    /\ UNCHANGED <<pixels, pixels0, carrier, dibanLoaded, reader, reader3, magic, peek,
                   isNewFormat, dataTypeByte, dataLength, lastOutcome, decodes>>
    /\ UNCHANGED encVars
    /\ UNCHANGED sideVars

Next ==
    \/ EncodeBegin
    \/ EncodeCheckCapacity
    \/ EncodeWrite
    \/ DecodeLoad
    \/ DecodeAgain
    \/ DecodeReadMagic
    \/ DecodePeek
    \/ DecodeClassify
    \/ DecodeLegacy
    \/ DecodeModern

Spec == Init /\ [][Next]_vars

(* ------------------ decodeAddressFromImage as one call ----------------- *)
\* what the promise of decodeAddressFromImage settles with for the buffer
\* px, the steps above taken in one go
v2Decode(px, loaded) ==
    LET m    == PixelBitReader_readBytes(PixelBitReader_new(px), px, 4)
        skip == PixelBitReader_readBytes(PixelBitReader_new(px), px, 4)
        pk   == PixelBitReader_readBytes(skip.rd, px, 3)
    IN  IF ~m.ok THEN ErrorOutcome(NotEnoughData)
        ELSE IF MagicMismatch(m.out) THEN ErrorOutcome(MagicNotFound)
        ELSE IF ~skip.ok \/ ~pk.ok THEN ErrorOutcome(NotEnoughData)
        ELSE IF IsNewFormat(pk.out)
        THEN LET len == possibleLen(pk.out)
                 r   == PixelBitReader_readBytes(pk.rd, px, len)
             IN  IF len < 1 \/ len > MAX_DATA_LENGTH
                 THEN ErrorOutcome(InvalidLength)
                 ELSE IF ~r.ok THEN ErrorOutcome(NotEnoughData)
                 ELSE IF pk.out[1] = 1
                 THEN PrivateKeyOutcome(pk.out[1], r.out, loaded)
                 ELSE AddressOutcome("modern", pk.out[1], r.out, loaded)
        ELSE LET s1 == PixelBitReader_readBytes(PixelBitReader_new(px), px, 4)
                 s2 == PixelBitReader_readBytes(s1.rd, px, 2)
                 r  == PixelBitReader_readBytes(s2.rd, px,
                                                pk.out[1] * 256 + pk.out[2])
             IN  IF ~s1.ok \/ ~s2.ok \/ ~r.ok THEN ErrorOutcome(NotEnoughData)
                 ELSE AddressOutcome("legacy", 0, r.out, loaded)

(* -------------------------- BitQueue on its own ------------------------ *)
\* the calls the class offers, made in any order on one queue: bytes pushed
\* as encodeLSB pushes them, 3-bit groups as _fillBits pushes them, and pops
\* of the sizes in use (1, 3, 8), of nothing, and of a whole 32-bit word
stegVars == <<pixels, pixels0, carrier, pc, dibanLoaded, encVars, decVars>>

\* q.pushByte(byte)
BQ_pushByte ==
    /\ \E byte \in {165, 60} :
         /\ Len(bqPushed) + 8 <= MaxQueueBits
         /\ bq' = BitQueue_pushByte(bq, byte)
         /\ bqPushed' = bqPushed \o [k \in 1..8 |-> (byte \div (2 ^ (8 - k))) % 2]
         /\ bqRet' = [op |-> "pushByte", n |-> 8, ok |-> TRUE, out |-> 0,
                      before |-> bq]
    /\ UNCHANGED bqPopped
    /\ UNCHANGED stegVars
    /\ UNCHANGED codecVars
    /\ UNCHANGED <<cursorVars, inputText, shown>>

\* q.pushBitsFromValue(value, count)
BQ_pushBitsFromValue ==
    /\ \E value \in {5}, count \in {3} :
         /\ Len(bqPushed) + count <= MaxQueueBits
         /\ bq' = BitQueue_pushBitsFromValue(bq, value, count)
         /\ bqPushed' = bqPushed
                \o [k \in 1..count |-> (value \div (2 ^ (count - k))) % 2]
         /\ bqRet' = [op |-> "pushBitsFromValue", n |-> count, ok |-> TRUE,
                      out |-> 0, before |-> bq]
    /\ UNCHANGED bqPopped
    /\ UNCHANGED stegVars
    /\ UNCHANGED codecVars
    /\ UNCHANGED <<cursorVars, inputText, shown>>

\* q.popBits(n); a null return removes nothing
BQ_popBits ==
    /\ \E n \in {0, 1, 3, 8, 32} :
         LET r == BitQueue_popBits(bq, n)
         IN  /\ bq' = r.bits
             /\ bqPopped' = bqPopped + (Len(bq) - Len(r.bits))
             /\ bqRet' = [op |-> "popBits", n |-> n, ok |-> r.ok,
                          out |-> r.out, before |-> bq]
    /\ UNCHANGED bqPushed
    /\ UNCHANGED stegVars
    /\ UNCHANGED codecVars
    /\ UNCHANGED <<cursorVars, inputText, shown>>

InitBitQueue ==
    /\ dibanLoaded = FALSE
    /\ StegIdle
    /\ BitQueueIdle
    /\ CodecIdle
    /\ CursorIdle

NextBitQueue ==
    \/ BQ_pushByte
    \/ BQ_pushBitsFromValue
    \/ BQ_popBits

SpecBitQueue == InitBitQueue /\ [][NextBitQueue]_vars


(* ------------------------ the address codecs in use -------------------- *)
\* the example address of the README
ReadmeAddress ==
    <<"D", "T", "q", "A", "F", "g", "N", "N", "U", "g", "i", "P", "E", "f", "F", "m", "c",
      "4", "H", "Z", "U", "k", "q", "J", "4", "s", "z", "5", "v", "A", "D", "d", "1", "n">>

\* the 25 bytes a wallet encodes: version, 20 hash bytes, 4 check bytes
AddressPayload(version, seed) ==
    <<version>> \o [k \in 1..24 |-> (seed * 89 + k * (seed + 6) * 13 + k * k) % 256]

\* Base58Check addresses "D..." and "9..." / "A...", of the version bytes
\* 30 and 22 of the main network
Base58Addresses ==
    {ReadmeAddress}
    \cup {bytesToBase58(AddressPayload(v, s)).str :
             v \in {30, 22}, s \in 1..AddressSeeds}

\* witness addresses: of the 44 characters Bech32 gives a 20-byte program
\* under the prefix doge, and texts of 25 and of 12 characters
WitnessAddresses ==
    {<<"d", "o", "g", "e", "1", "q", "w", "5", "0", "8", "d", "6", "q", "e", "j", "x",
       "t", "d", "g", "4", "y", "5", "r", "3", "z", "a", "r", "v", "a", "r", "y", "0",
       "c", "5", "x", "w", "7", "k", "v", "8", "f", "3", "t", "4">>,
     <<"d", "o", "g", "e", "1", "q", "w", "5", "0", "8", "d", "6", "q", "e", "j", "x",
       "t", "d", "g", "4", "y", "5", "r", "3", "z">>,
     <<"d", "o", "g", "e", "1", "q", "w", "5", "0", "8", "d", "6">>}

\* encodeDIBAN(dogeAddress); diban.js has to be loaded for it to exist
DibanEncode ==
    /\ dibanLoaded
    /\ dibanPc = "start"
    /\ LET r == encodeDIBAN(dogeAddress)
       IN  /\ dibanResult' = [ok |-> r.ok, diban |-> r.diban, words |-> << >>,
                              code |-> r.code]
           /\ dibanPc' = IF r.ok THEN "encoded" ELSE "failed"
    /\ UNCHANGED <<dogeAddress, dibanValid, dibanDecoded,
                   wordsPc, wordsResult, wordsValid, wordsDecoded>>
    /\ UNCHANGED stegVars
    /\ UNCHANGED bqVars
    /\ UNCHANGED <<cursorVars, inputText, shown>>

\* verifyDIBAN(encoded.diban)
DibanVerify ==
    /\ dibanPc = "encoded"
    /\ dibanValid' = verifyDIBAN(dibanResult.diban)
    /\ dibanPc' = "verified"
    /\ UNCHANGED <<dogeAddress, dibanResult, dibanDecoded,
                   wordsPc, wordsResult, wordsValid, wordsDecoded>>
    /\ UNCHANGED stegVars
    /\ UNCHANGED bqVars
    /\ UNCHANGED <<cursorVars, inputText, shown>>

\* decodeDIBAN(encoded.diban)
DibanDecode ==
    /\ dibanPc = "verified"
    /\ dibanDecoded' = decodeDIBAN(dibanResult.diban)
    /\ dibanPc' = "decoded"
    /\ UNCHANGED <<dogeAddress, dibanResult, dibanValid,
                   wordsPc, wordsResult, wordsValid, wordsDecoded>>
    /\ UNCHANGED stegVars
    /\ UNCHANGED bqVars
    /\ UNCHANGED <<cursorVars, inputText, shown>>

\* encodeDogeWords(dogeAddress)
WordsEncode ==
    /\ wordsPc = "start"
    /\ LET r == encodeDogeWords(dogeAddress, dibanLoaded)
       IN  /\ wordsResult' = [ok |-> r.ok, diban |-> << >>, words |-> r.words,
                              code |-> r.code]
           /\ wordsPc' = IF r.ok THEN "encoded" ELSE "failed"
    /\ UNCHANGED <<dogeAddress, wordsValid, wordsDecoded,
                   dibanPc, dibanResult, dibanValid, dibanDecoded>>
    /\ UNCHANGED stegVars
    /\ UNCHANGED bqVars
    /\ UNCHANGED <<cursorVars, inputText, shown>>

\* verifyDogeWords(result.words)
WordsVerify ==
    /\ wordsPc = "encoded"
    /\ wordsValid' = verifyDogeWords(wordsResult.words)
    /\ wordsPc' = "verified"
    /\ UNCHANGED <<dogeAddress, wordsResult, wordsDecoded,
                   dibanPc, dibanResult, dibanValid, dibanDecoded>>
    /\ UNCHANGED stegVars
    /\ UNCHANGED bqVars
    /\ UNCHANGED <<cursorVars, inputText, shown>>

\* decodeDogeWords(result.words)
WordsDecode ==
    /\ wordsPc = "verified"
    /\ wordsDecoded' = decodeDogeWords(wordsResult.words, dibanLoaded)
    /\ wordsPc' = "decoded"
    /\ UNCHANGED <<dogeAddress, wordsResult, wordsValid,
                   dibanPc, dibanResult, dibanValid, dibanDecoded>>
    /\ UNCHANGED stegVars
    /\ UNCHANGED bqVars
    /\ UNCHANGED <<cursorVars, inputText, shown>>

InitCodecs ==
    /\ dibanLoaded \in BOOLEAN
    /\ StegIdle
    /\ BitQueueIdle
    /\ dogeAddress \in Base58Addresses \cup WitnessAddresses
    /\ CodecStart
    /\ CursorIdle

NextCodecs ==
    \/ DibanEncode
    \/ DibanVerify
    \/ DibanDecode
    \/ WordsEncode
    \/ WordsVerify
    \/ WordsDecode

SpecCodecs == InitCodecs /\ [][NextCodecs]_vars

(* ------------------------ the transport on its own --------------------- *)
\* encodeLSB on a buffer and PixelBitReader cursors on it, called as a
\* caller of the two may call them: a byte sequence is written or the buffer
\* is taken as it is, two cursors are opened, and reads of either follow in
\* any order.  Cursor 1 is read in pieces of any size in use, cursor 2 in
\* whole bytes as the decoder reads.  A null return leaves the cursor in
\* use, an exception ends its use.
MaxTransportLen == 7


\* buffers of one pixel less than, exactly, and one pixel more than the
\* byte sequence needs, of mixed channel values, and an opaque white one of
\* exactly the pixels needed
TransportImages(len) ==
    {Blank(3, n) : n \in {k \in (PixelsFor(len) - 1)..(PixelsFor(len) + 1) : k >= 0}}
    \cup {Blank(2, PixelsFor(len))}

\* the count bits of value, most significant first
BitsOf(value, count) == [k \in 1..count |-> BitOf(value, count - k)]


\* encodeLSB(pixels, dataBytes) on a buffer of any size
LSB_encode ==
    /\ pc = "start"
    /\ \E d \in {PayloadOf(len, 4) : len \in {0, 2, MaxTransportLen}} :
         \E image \in TransportImages(Len(d)) :
            LET r == encodeLSB(image, d)
            IN  /\ pixels' = r.pixels
                /\ pixels0' = image
                /\ carrier' = image
                /\ dataBytesEnc' = d
                /\ encError' = IF r.ok THEN "" ELSE ImageTooSmallForData
                /\ pc' = IF r.ok THEN "lsb_written" ELSE "lsb_failed"
    /\ encodeLSBCalled' = TRUE
    /\ UNCHANGED <<dibanLoaded, dataTypeByteEnc, full>>
    /\ UNCHANGED decVars
    /\ UNCHANGED sideVars

\* new PixelBitReader(pixels), twice, on the buffer written or on one that
\* was never written
Cur_open ==
    /\ pc \in {"start", "lsb_written", "lsb_failed"}
    /\ IF pc = "start"
       THEN \E image \in TransportImages(2) :
               /\ pixels' = image
               /\ pixels0' = image
               /\ carrier' = image
       ELSE /\ pixels0' = pixels
            /\ UNCHANGED <<pixels, carrier>>
    /\ cur' = [c \in Cursors |-> PixelBitReader_new(pixels')]
    /\ pc' = "reading"
    /\ UNCHANGED <<curBits, curPopped, curFailed, curRet>>
    /\ UNCHANGED <<dibanLoaded, encVars, decVars, bqVars, codecVars, inputText, shown>>

\* cursor.popBits(n)
Cur_popBits ==
    /\ pc = "reading"
    /\ curFailed[1] # "threw"
    /\ \E n \in {1, 3, 8} :
         LET r == PixelBitReader_popBits(cur[1], pixels, n)
         IN  /\ cur' = [cur EXCEPT ![1] = r.rd]
             /\ curBits' = [curBits EXCEPT
                              ![1] = IF r.ok THEN @ \o BitsOf(r.out, n) ELSE @]
             /\ curPopped' = [curPopped EXCEPT ![1] = IF r.ok THEN @ + n ELSE @]
             /\ curFailed' = [curFailed EXCEPT ![1] = IF r.ok THEN @ ELSE "null"]
             /\ curRet' = [cursor |-> 1, op |-> "popBits", n |-> n, ok |-> r.ok,
                           out |-> IF r.ok THEN <<r.out>> ELSE << >>,
                           before |-> cur[1]]
    /\ UNCHANGED <<stegVars, bqVars, codecVars, inputText, shown>>

\* cursor.popByte()
Cur_popByte ==
    /\ pc = "reading"
    /\ curFailed[1] # "threw"
    /\ LET r == PixelBitReader_popByte(cur[1], pixels)
       IN  /\ cur' = [cur EXCEPT ![1] = r.rd]
           /\ curBits' = [curBits EXCEPT
                            ![1] = IF r.ok THEN @ \o BitsOf(r.out, 8) ELSE @]
           /\ curPopped' = [curPopped EXCEPT ![1] = IF r.ok THEN @ + 8 ELSE @]
           /\ curFailed' = [curFailed EXCEPT ![1] = IF r.ok THEN @ ELSE "null"]
           /\ curRet' = [cursor |-> 1, op |-> "popByte", n |-> 8, ok |-> r.ok,
                         out |-> IF r.ok THEN <<r.out>> ELSE << >>,
                         before |-> cur[1]]
    /\ UNCHANGED <<stegVars, bqVars, codecVars, inputText, shown>>

\* cursor.readBytes(count): a throw hands nothing to the caller and ends
\* the caller's use of the cursor
Cur_readBytes ==
    /\ pc = "reading"
    /\ \E c \in Cursors, count \in {0, 2, 3, 4, Len(dataBytesEnc)} :
         LET r == PixelBitReader_readBytes(cur[c], pixels, count)
         IN  /\ curFailed[c] # "threw"
             /\ c = 1 => count \in {0, 2, 4, Len(dataBytesEnc)}
             /\ c = 2 => count \in {3, 4}
             /\ cur' = [cur EXCEPT ![c] = r.rd]
             /\ curBits' = [curBits EXCEPT
                              ![c] = IF r.ok
                                     THEN @ \o [j \in 1..(8 * Len(r.out)) |->
                                                   StreamBit(r.out, j - 1)]
                                     ELSE @]
             /\ curPopped' = [curPopped EXCEPT ![c] = @ + 8 * Len(r.out)]
             /\ curFailed' = [curFailed EXCEPT ![c] = IF r.ok THEN @ ELSE "threw"]
             /\ curRet' = [cursor |-> c, op |-> "readBytes", n |-> count,
                           ok |-> r.ok,
                           out |-> IF r.ok THEN r.out ELSE << >>,
                           before |-> cur[c]]
    /\ UNCHANGED <<stegVars, bqVars, codecVars, inputText, shown>>

InitTransport ==
    /\ dibanLoaded = FALSE
    /\ StegIdle
    /\ BitQueueIdle
    /\ CodecIdle
    /\ CursorIdle

NextTransport ==
    \/ LSB_encode
    \/ Cur_open
    \/ Cur_popBits
    \/ Cur_popByte
    \/ Cur_readBytes

SpecTransport == InitTransport /\ [][NextTransport]_vars

(* ------------------ text in, image, text on the page ------------------- *)
\* how many spaces an entered text may carry on either side
MaxSpaces == 1
\* the longest witness text that is entered; longer ones are met as images
\* written earlier
MaxWitnessLen == 25


\* the return null of detectPrivateKeyType
NullType == [code |-> "null", name |-> "null", description |-> "null"]

\* detectAddressType of steganography.js
detectAddressType(addressText) ==
    LET clean == Trim(addressText)
        lower == [i \in 1..Len(clean) |-> toLowerCase(clean[i])]
    IN  IF startsWith(lower, <<"d", "o", "g", "e", "1">>)
        THEN [code |-> "02", name |-> "P2WPKH", description |-> "Bech32"]
        ELSE IF startsWith(clean, <<"9">>) \/ startsWith(clean, <<"A">>)
        THEN [code |-> "01", name |-> "P2SH", description |-> "P2SH"]
        ELSE IF startsWith(clean, <<"D">>)
        THEN [code |-> "00", name |-> "P2PKH", description |-> "P2PKH"]
        ELSE [code |-> "00", name |-> "P2PKH", description |-> "P2PKH (detected)"]

\* base58ToBytesSteg: base58ToBytes of diban.js when that is loaded, else
\* the local copy, which returns an empty array for the empty string
base58ToBytesSteg(str, loaded) ==
    IF ~loaded /\ str = << >> THEN [ok |-> TRUE, bytes |-> << >>]
    ELSE base58ToBytes(str)

\* bytesToBase58Steg where it returns: the local copy gives the empty
\* string for an empty array
bytesToBase58Steg(bytes) ==
    IF bytes = << >> THEN << >> ELSE bytesToBase58(bytes).str

\* 51 or 52 characters, all of the Base58 alphabet: WIF; else null
detectPrivateKeyType(privateKey) ==
    LET clean == Trim(privateKey)
    IN  IF /\ Len(clean) >= 51
           /\ Len(clean) <= 52
           /\ \A i \in 1..Len(clean) : clean[i] \in Range(BASE58)
        THEN [code |-> "WIF", name |-> "WIF", description |-> "WIF (Base58)"]
        ELSE NullType

detectDataType(input) ==
    LET clean == Trim(input)
        privateKeyType == detectPrivateKeyType(clean)
    IN  IF privateKeyType # NullType
        THEN [type |-> "private_key", data |-> clean, info |-> privateKeyType]
        ELSE [type |-> "address", data |-> clean,
              info |-> detectAddressType(clean)]

\* dataTypeByte and dataBytes of encodeAddressInImage; ok = FALSE stands
\* for the throw of base58ToBytesSteg
encodeData(input, loaded) ==
    LET dataInfo == detectDataType(input)
        b58      == base58ToBytesSteg(dataInfo.data, loaded)
    IN  IF dataInfo.type = "private_key"
        THEN [ok |-> b58.ok, dataTypeByte |-> 1, dataBytes |-> b58.bytes]
        ELSE IF dataInfo.info.code = "02"
        THEN [ok |-> TRUE, dataTypeByte |-> 0,
              dataBytes |-> TextEncoder_encode(dataInfo.data)]
        ELSE [ok |-> b58.ok, dataTypeByte |-> 0, dataBytes |-> b58.bytes]

RECURSIVE TrimEndBytes(_)
\* the trailing part of String.prototype.trim on ASCII white space
TrimEndBytes(bytes) ==
    IF bytes # << >> /\ bytes[Len(bytes)] \in {9, 10, 11, 12, 13, 32}
    THEN TrimEndBytes(SubSeq(bytes, 1, Len(bytes) - 1))
    ELSE bytes

\* the object decodeAddressFromImage resolves with, for an outcome that is
\* a result; a field the object does not have reads as undefined, written
\* <<"undefined">>, which a template literal renders as the text undefined
decodedResult(oc) ==
    IF oc.dataType = "private_key"
    THEN LET privateKey == bytesToBase58Steg(oc.payload)
         IN  [address |-> <<"undefined">>, privateKey |-> privateKey,
              type |-> detectPrivateKeyType(privateKey),
              dataType |-> "private_key"]
    ELSE LET addrUTF8 == TextDecoder_decode(TrimEndBytes(TrimStart(oc.payload)))
             address  == IF StartsWithDoge1(oc.payload) THEN addrUTF8
                         ELSE bytesToBase58Steg(oc.payload)
         IN  [address |-> address, privateKey |-> <<"undefined">>,
              type |-> detectAddressType(address), dataType |-> "address"]

\* texts handed to encodeAddressInImage: witness addresses as users enter
\* them (lower case, upper case, both valid Bech32, and with a capital
\* first letter), Base58 addresses, with and without spaces around them,
\* the empty text, and a text that is not Base58
TextInputs ==
    LET UpperCased(str) ==
            [i \in 1..Len(str) |->
                IF str[i] \in Range(LowerChars)
                THEN UpperChars[indexOf(LowerChars, str[i]) + 1] ELSE str[i]]
        entered == {w \in WitnessAddresses : Len(w) <= MaxWitnessLen}
        texts   == entered
                   \cup {UpperCased(w) : w \in entered}
                   \cup {<<UpperCased(w)[1]>> \o Tail(w) : w \in entered}
                   \cup Base58Addresses
    IN  {[i \in 1..k |-> " "] \o t \o [i \in 1..k |-> " "] :
            t \in texts, k \in 0..MaxSpaces}
        \cup {<< >>, <<"D", "0">>}

\* encodeAddressInImage(imageFile, text), the whole call, on images that
\* are opaque white or mixed, one pixel short, exact, or with a pixel to
\* spare
EncodeText ==
    /\ pc = "start"
    /\ \E text \in TextInputs :
         LET d     == encodeData(text, dibanLoaded)
             frame == BuildFrame(d.dataTypeByte, d.dataBytes)
         IN  \E image \in {Blank(tex, n) : tex \in {2, 3},
                           n \in (PixelsFor(Len(frame)) - 1)
                                     ..(PixelsFor(Len(frame)) + 1)} :
                /\ inputText' = text
                /\ pixels0' = image
                /\ carrier' = image
                /\ IF ~d.ok
                   THEN /\ encError' = "Invalid Base58 character"
                        /\ pc' = "txt_failed"
                        /\ pixels' = image
                        /\ UNCHANGED <<dataTypeByteEnc, dataBytesEnc, full,
                                       encodeLSBCalled>>
                   ELSE /\ dataTypeByteEnc' = d.dataTypeByte
                        /\ dataBytesEnc' = d.dataBytes
                        /\ full' = frame
                        /\ IF CapacityFails(frame, image)
                           THEN /\ encError' = ImageTooSmall
                                /\ pc' = "txt_failed"
                                /\ pixels' = image
                                /\ UNCHANGED encodeLSBCalled
                           ELSE LET r == encodeLSB(image, frame)
                                IN  /\ pixels' = r.pixels
                                    /\ encodeLSBCalled' = TRUE
                                    /\ encError' = IF r.ok THEN ""
                                                   ELSE ImageTooSmallForData
                                    /\ pc' = IF r.ok THEN "txt_done"
                                             ELSE "txt_failed"
    /\ UNCHANGED <<dibanLoaded, shown>>
    /\ UNCHANGED decVars
    /\ UNCHANGED <<bqVars, codecVars, cursorVars>>

\* decodeAddressFromImage(imageFile), the whole call, on the image just
\* written or on one picked from disk.  Among the latter are images written
\* by an earlier encodeAddressInImage on an opaque white canvas, for a
\* witness address of any length and for a private key in wallet import
\* format: 51 Base58 characters for the version byte 0x9E, 32 key bytes and
\* 4 check bytes
DecodeImage ==
    /\ pc \in {"start", "txt_done"}
    /\ IF pc = "start"
       THEN \E image \in DecodeImages \cup
                {Embed(2, PixelsFor(Len(frame)) + d, frame) :
                    frame \in {BuildFrame(1, <<158>> \o
                                  [k \in 1..36 |-> (k * 37 + 11) % 256])}
                              \cup {BuildFrame(0, TextEncoder_encode(w)) :
                                       w \in WitnessAddresses},
                    d \in {0, 1}} :
               /\ pixels' = image
               /\ pixels0' = image
               /\ carrier' = image
       ELSE /\ pixels0' = pixels
            /\ UNCHANGED <<pixels, carrier>>
    /\ outcome' = v2Decode(pixels', dibanLoaded)
    /\ pc' = "txt_decoded"
    /\ UNCHANGED <<dibanLoaded, encVars, inputText, shown>>
    /\ UNCHANGED <<reader, reader2, reader3, magic, peek, isNewFormat,
                   dataTypeByte, dataLength, dataBytes, lastOutcome, decodes>>
    /\ UNCHANGED <<bqVars, codecVars, cursorVars>>

\* the .then callback of decodeAddressFromImageUI; a TypeError thrown while
\* the template is evaluated goes to the .catch callback
DecodeUI_then ==
    /\ pc = "txt_decoded"
    /\ outcome.kind = "result"
    /\ LET result == decodedResult(outcome)
       IN  shown' = IF result.type = NullType
                    THEN [class |-> "result error", address |-> << >>,
                          typeName |-> "", message |-> "TypeError: result.type is null"]
                    ELSE [class |-> "result success",
                          address |-> IF result.address = <<"undefined">>
                                      THEN <<"u", "n", "d", "e", "f", "i", "n", "e", "d">>
                                      ELSE result.address,
                          typeName |-> result.type.name, message |-> ""]
    /\ pc' = "txt_shown"
    /\ UNCHANGED <<pixels, pixels0, carrier, dibanLoaded, inputText>>
    /\ UNCHANGED <<encVars, decVars>>
    /\ UNCHANGED <<bqVars, codecVars, cursorVars>>

\* the .catch callback of decodeAddressFromImageUI, on a rejection
DecodeUI_catch ==
    /\ pc = "txt_decoded"
    /\ outcome.kind = "error"
    /\ shown' = [class |-> "result error", address |-> << >>,
                 typeName |-> "", message |-> outcome.error]
    /\ pc' = "txt_shown"
    /\ UNCHANGED <<pixels, pixels0, carrier, dibanLoaded, inputText>>
    /\ UNCHANGED <<encVars, decVars>>
    /\ UNCHANGED <<bqVars, codecVars, cursorVars>>

NextText ==
    \/ EncodeText
    \/ DecodeImage
    \/ DecodeUI_then
    \/ DecodeUI_catch

SpecText == Init /\ [][NextText]_vars

(* -------------------- the first version of the codec ------------------- *)
\* the longest address, in bytes, handed to the first encoder
MaxV1Len == 8

V1_MAX_ADDRESS_LENGTH == 1000

\* writes up to three bits into the low bits of R, G, B; a write past the
\* end of the typed array is ignored
encodeBitsIntoPixel(pixelData, pixelIndex, bits, bitCount) ==
    LET baseIndex == pixelIndex * 4
    IN  [i \in 1..Len(pixelData) |->
            IF i = baseIndex + 1 /\ bitCount > 0
            THEN SetLowBit(pixelData[i], BitOf(bits, 2))
            ELSE IF i = baseIndex + 2 /\ bitCount > 1
            THEN SetLowBit(pixelData[i], BitOf(bits, 1))
            ELSE IF i = baseIndex + 3 /\ bitCount > 2
            THEN SetLowBit(pixelData[i], BitOf(bits, 0))
            ELSE pixelData[i]]

\* the guarded loops call it for pixels of the buffer only
decodeBitsFromPixel(pixelData, pixelIndex, bitCount) ==
    LET baseIndex == pixelIndex * 4
    IN    (IF bitCount > 0 THEN 4 * (pixelData[baseIndex + 1] % 2) ELSE 0)
        + (IF bitCount > 1 THEN 2 * (pixelData[baseIndex + 2] % 2) ELSE 0)
        + (IF bitCount > 2 THEN pixelData[baseIndex + 3] % 2 ELSE 0)

\* Math.ceil(totalBits / 3) for 4 + 2 + byteLength bytes
calculatePixelsNeeded(byteLength) == (((4 + 2 + byteLength) * 8) + 2) \div 3

RECURSIVE v1EncodeLoop(_, _, _, _, _, _)
\* while (dataIndex < dataToEncode.length || bitsInBuffer >= 3) { ... },
\* data being dataToEncode
v1EncodeLoop(pixelData, data, bitBuffer, bitsInBuffer, dataIndex, pixelIndex) ==
    IF ~(dataIndex < Len(data) \/ bitsInBuffer >= 3)
    THEN [pixels |-> pixelData, pixelIndex |-> pixelIndex,
          bitsInBuffer |-> bitsInBuffer]
    ELSE LET fill  == bitsInBuffer < 3 /\ dataIndex < Len(data)
             buf1  == IF fill
                      THEN (bitBuffer * 256) + data[dataIndex + 1]
                      ELSE bitBuffer
             n1    == IF fill THEN bitsInBuffer + 8 ELSE bitsInBuffer
             d1    == IF fill THEN dataIndex + 1 ELSE dataIndex
             write == n1 >= 3
             bitsToEncode == (buf1 \div (2 ^ (n1 - 3))) % 8
             px1   == IF write
                      THEN encodeBitsIntoPixel(pixelData, pixelIndex,
                                               bitsToEncode, 3)
                      ELSE pixelData
             buf2  == IF ~write THEN buf1
                      ELSE IF n1 > 3 THEN buf1 % (2 ^ (n1 - 3)) ELSE 0
             n2    == IF write THEN n1 - 3 ELSE n1
             p2    == IF write THEN pixelIndex + 1 ELSE pixelIndex
         IN  IF p2 >= Len(pixelData) \div 4
             THEN [pixels |-> px1, pixelIndex |-> p2, bitsInBuffer |-> n2]
             ELSE v1EncodeLoop(px1, data, buf2, n2, d1, p2)

\* the first encodeAddressInImage from the frame on; ok = FALSE stands for
\* the rejection "Image too small"
v1Encode(pixelData, addressBytes) ==
    LET dataToEncode == LegacyFrame(addressBytes)
        r == v1EncodeLoop(pixelData, dataToEncode, 0, 0, 0, 0)
    IN  IF calculatePixelsNeeded(Len(addressBytes)) > Len(pixelData) \div 4
        THEN [ok |-> FALSE, pixels |-> pixelData, pixelIndex |-> 0,
              bitsInBuffer |-> 0]
        ELSE [ok |-> TRUE, pixels |-> r.pixels, pixelIndex |-> r.pixelIndex,
              bitsInBuffer |-> r.bitsInBuffer]

RECURSIVE v1Extract(_, _, _)
\* while (bitsInBuffer >= 8 && byteIndex < count) { ... }
v1Extract(st, count, out) ==
    IF ~(st.bitsInBuffer >= 8 /\ Len(out) < count)
    THEN [st |-> st, out |-> out]
    ELSE v1Extract(
             [bitBuffer |-> IF st.bitsInBuffer > 8
                            THEN st.bitBuffer % (2 ^ (st.bitsInBuffer - 8))
                            ELSE 0,
              bitsInBuffer |-> st.bitsInBuffer - 8,
              pixelIndex |-> st.pixelIndex],
             count,
             Append(out, (st.bitBuffer \div (2 ^ (st.bitsInBuffer - 8))) % 256))

RECURSIVE v1ReadBytes(_, _, _, _)
\* while (byteIndex < count && pixelIndex < width * height) { ... }; the
\* bytes not reached stay 0, as new Uint8Array(count) made them
v1ReadBytes(pixelData, st, count, out) ==
    IF ~(Len(out) < count /\ st.pixelIndex < Len(pixelData) \div 4)
    THEN [st |-> st, out |-> out \o [i \in 1..(count - Len(out)) |-> 0]]
    ELSE LET bits == decodeBitsFromPixel(pixelData, st.pixelIndex, 3)
             e == v1Extract([bitBuffer |-> (st.bitBuffer * 8) + bits,
                             bitsInBuffer |-> st.bitsInBuffer + 3,
                             pixelIndex |-> st.pixelIndex + 1], count, out)
         IN  v1ReadBytes(pixelData, e.st, count, e.out)

\* the first decodeAddressFromImage: bytesToBase58Steg returns for every
\* array of 1 byte or more, so the result is the Base58 text of payload
v1Decode(pixelData) ==
    LET m == v1ReadBytes(pixelData, [bitBuffer |-> 0, bitsInBuffer |-> 0,
                                     pixelIndex |-> 0], 4, << >>)
        l == v1ReadBytes(pixelData, m.st, 2, << >>)
        addressLength == (l.out[1] * 256) + l.out[2]
        a == v1ReadBytes(pixelData, l.st, addressLength, << >>)
    IN  IF m.out # MAGIC_MARKER
        THEN ErrorOutcome(
    "Image does not contain encoded Dogecoin address (magic marker not found)")
        ELSE IF addressLength > V1_MAX_ADDRESS_LENGTH \/ addressLength < 1
        THEN ErrorOutcome("Invalid address length detected")
        ELSE [kind |-> "result", error |-> "", dataType |-> "address",
              format |-> "v1", typeTag |-> 0,
              length |-> addressLength, payload |-> a.out]

\* the first encodeAddressInImage, the whole call, from the address bytes
\* on: 1 byte or more, on images of any channel values, one pixel short,
\* exact, or with a pixel to spare
V1_encodeAddressInImage ==
    /\ pc = "start"
    /\ \E addressBytes \in {PayloadOf(len, seed) :
                                len \in 1..MaxV1Len, seed \in Seeds} :
         \E image \in {Blank(tex, n) : tex \in Textures,
                        n \in (PixelsFor(6 + Len(addressBytes)) - 1)
                                  ..(PixelsFor(6 + Len(addressBytes)) + 1)} :
            LET r == v1Encode(image, addressBytes)
            IN  /\ pixels' = r.pixels
                /\ pixels0' = image
                /\ carrier' = image
                /\ dataBytesEnc' = addressBytes
                /\ full' = LegacyFrame(addressBytes)
                /\ encError' = IF r.ok THEN "" ELSE ImageTooSmall
                /\ pc' = IF r.ok THEN "v1_done" ELSE "v1_failed"
    /\ UNCHANGED <<dibanLoaded, dataTypeByteEnc, encodeLSBCalled>>
    /\ UNCHANGED decVars
    /\ UNCHANGED sideVars

\* the first decodeAddressFromImage, the whole call, on the image just
\* written or on one picked from disk
V1_decodeAddressFromImage ==
    /\ pc \in {"start", "v1_done"}
    /\ IF pc = "start"
       THEN \E image \in DecodeImages :
               /\ pixels' = image
               /\ pixels0' = image
               /\ carrier' = image
       ELSE /\ pixels0' = pixels
            /\ UNCHANGED <<pixels, carrier>>
    /\ outcome' = v1Decode(pixels')
    /\ pc' = "v1_decoded"
    /\ UNCHANGED <<dibanLoaded, encVars>>
    /\ UNCHANGED <<reader, reader2, reader3, magic, peek, isNewFormat,
                   dataTypeByte, dataLength, dataBytes, lastOutcome, decodes>>
    /\ UNCHANGED sideVars

\* the present decodeAddressFromImage, the whole call, on the image the
\* first encoder has written
V2_decodeV1Image ==
    /\ pc = "v1_done"
    /\ outcome' = v2Decode(pixels, dibanLoaded)
    /\ pc' = "v1_decoded_by_v2"
    /\ pixels0' = pixels
    /\ UNCHANGED <<pixels, carrier, dibanLoaded, encVars>>
    /\ UNCHANGED <<reader, reader2, reader3, magic, peek, isNewFormat,
                   dataTypeByte, dataLength, dataBytes, lastOutcome, decodes>>
    /\ UNCHANGED sideVars

NextV1 ==
    \/ V1_encodeAddressInImage
    \/ V1_decodeAddressFromImage
    \/ V2_decodeV1Image

SpecV1 == Init /\ [][NextV1]_vars

(* ---------------------- vocabulary of the properties -------------------- *)
\* number of whole pixels of a buffer
PixelCount(px) == Len(px) \div 4

\* bit j (from 0) of the embedded stream: the low bit of channel j mod 3
\* (R, G, B) of pixel j div 3
LowBitAt(px, j) == px[4 * (j \div 3) + (j % 3) + 1] % 2

\* byte k (from 0) of the embedded stream, most-significant bit first
StreamByteAt(px, k) ==
      128 * LowBitAt(px, 8 * k)     + 64 * LowBitAt(px, 8 * k + 1)
    +  32 * LowBitAt(px, 8 * k + 2) + 16 * LowBitAt(px, 8 * k + 3)
    +   8 * LowBitAt(px, 8 * k + 4) +  4 * LowBitAt(px, 8 * k + 5)
    +   2 * LowBitAt(px, 8 * k + 6) +      LowBitAt(px, 8 * k + 7)

\* the len stream bytes from byte offset off
StreamBytes(px, off, len) == [i \in 1..len |-> StreamByteAt(px, off + i - 1)]

\* the buffer has the pixels that hold the first count stream bytes
HoldsBytes(px, count) == 3 * PixelCount(px) >= 8 * count

\* the least number of pixels whose 3 bits each cover 8 bits per byte
CeilPixels(byteCount) ==
    CHOOSE n \in 0..(3 * byteCount) :
        /\ 3 * n >= 8 * byteCount
        /\ \A m \in 0..(3 * byteCount) : 3 * m >= 8 * byteCount => n <= m

\* the encoder ran to completion in this run and the decoder has since
\* settled on the image it produced
DecodedAfterEncode == pc = "dec_done" /\ encodeLSBCalled /\ encError = ""

(* ------------------------------- claims -------------------------------- *)
\* C1 - Frame round-trip: a modern frame MAGIC | t | len(p) | p with t in
\* {0, 1} and 1 <= len(p) <= 2000, written by the encoder into any carrier
\* with at least ceil((7 + len(p)) * 8 / 3) pixels, is classified modern by
\* the decoder and yields exactly type tag t and payload p.
C1_FrameRoundTrip ==
    (/\ DecodedAfterEncode
     /\ dataTypeByteEnc \in {0, 1}
     /\ Len(dataBytesEnc) >= 1
     /\ Len(dataBytesEnc) <= 2000
     /\ PixelCount(carrier) >= CeilPixels(7 + Len(dataBytesEnc)))
    => /\ outcome.kind = "result"
       /\ outcome.format = "modern"
       /\ isNewFormat
       /\ outcome.typeTag = dataTypeByteEnc
       /\ outcome.payload = dataBytesEnc
       /\ dataBytes = dataBytesEnc

\* a private-key frame of the longest payload, written into a carrier that
\* is not blank and has pixels to spare, has been decoded
C1_Witness ==
    /\ DecodedAfterEncode
    /\ dataTypeByteEnc = 1
    /\ Len(dataBytesEnc) = MaxPayloadLen
    /\ PixelCount(carrier) > CeilPixels(7 + Len(dataBytesEnc))
    /\ \E i \in 1..Len(carrier) : carrier[i] % 2 = 1
    /\ outcome.kind = "result"

\* C2 - Capacity boundary: for a payload of L bytes the encoder rejects with
\* "Image too small" exactly when ceil((4 + 1 + 2 + L) * 8 / 3) exceeds the
\* pixel count; one pixel fewer than that is rejected, exactly that many
\* pixels is encoded successfully.
C2_CapacityBoundary ==
    LET needed == CeilPixels(4 + 1 + 2 + Len(dataBytesEnc))
        total  == PixelCount(carrier)
    IN  /\ pc \in {"enc_write", "enc_done", "enc_error"}
             => ((encError = ImageTooSmall) <=> (needed > total))
        /\ pc = "enc_error" => encError = ImageTooSmall
        /\ (pc \in {"enc_done", "enc_error"} /\ total = needed - 1)
             => (pc = "enc_error" /\ encError = ImageTooSmall)
        /\ (pc \in {"enc_done", "enc_error"} /\ total = needed)
             => (pc = "enc_done" /\ encError = "")

\* a carrier with exactly the pixels needed has been encoded
C2_Witness ==
    /\ pc = "enc_done"
    /\ PixelCount(carrier) = CeilPixels(7 + Len(dataBytesEnc))
    /\ Len(dataBytesEnc) >= 1

\* C3 - No partial write on CarrierTooSmall: when the capacity check fails
\* the error is raised before encodeLSB is called and every channel of every
\* pixel is unchanged.
C3_NoPartialWrite ==
    (pc = "enc_error" /\ encError = ImageTooSmall)
    => /\ ~encodeLSBCalled
       /\ pixels = carrier

\* a carrier one pixel short of the need has been rejected
C3_Witness ==
    /\ pc = "enc_error"
    /\ encError = ImageTooSmall
    /\ PixelCount(carrier) = CeilPixels(7 + Len(dataBytesEnc)) - 1
    /\ \E i \in 1..Len(carrier) : carrier[i] # 255

\* C4 as stated - Alpha normalization: after any successful encode every
\* pixel of the buffer has alpha = 255, also the pixels after the last one
\* that received frame bits.
C4_AllAlphaOpaque ==
    pc = "enc_done"
    => \A k \in 0..(PixelCount(pixels) - 1) : pixels[4 * k + 4] = 255

\* C4 as amended - after a successful encode of an n-byte frame each of the
\* first ceil(8n/3) pixels has alpha = 255 whatever it was before, and every
\* later pixel keeps the alpha it had.
C4_WrittenAlphaOpaque ==
    pc = "enc_done"
    => \A k \in 0..(PixelCount(pixels) - 1) :
          IF k < CeilPixels(Len(full))
          THEN pixels[4 * k + 4] = 255
          ELSE pixels[4 * k + 4] = carrier[4 * k + 4]

\* a carrier with transparent pixels both under and after the frame has
\* been encoded
C4_Witness ==
    /\ pc = "enc_done"
    /\ PixelCount(pixels) > CeilPixels(Len(full))
    /\ carrier[4] # 255
    /\ carrier[Len(carrier)] # 255
    /\ pixels[Len(pixels)] # 255

\* the three bytes after the magic pass the new-format test
ModernTest(b) ==
    /\ b[1] \in {0, 1}
    /\ b[2] * 256 + b[3] >= 1
    /\ b[2] * 256 + b[3] <= 2000

\* C5 - Magic rejection: on a carrier of at least 12 pixels whose first four
\* embedded bytes are not 44 4F 47 45 the decoder fails with the magic-marker
\* error before any later byte is read or interpreted, whatever the other
\* pixels hold.
C5_MagicRejection ==
    (/\ pc = "dec_done"
     /\ PixelCount(pixels) >= 12
     /\ StreamBytes(pixels, 0, 4) # <<68, 79, 71, 69>>)
    => /\ outcome = ErrorOutcome(MagicNotFound)
       /\ reader.pixelIndex = 11
       /\ reader2 = NoReader
       /\ reader3 = NoReader
       /\ peek = << >>
       /\ dataBytes = << >>

\* a carrier whose magic is wrong in its last byte only, followed by a
\* well-formed header, has been rejected
C5_Witness ==
    /\ pc = "dec_done"
    /\ PixelCount(pixels) >= 12
    /\ StreamBytes(pixels, 0, 3) = <<68, 79, 71>>
    /\ StreamByteAt(pixels, 3) # 69
    /\ HoldsBytes(pixels, 7)
    /\ ModernTest(StreamBytes(pixels, 4, 3))
    /\ outcome.error = MagicNotFound

\* C6 - Legacy compatibility: a legacy frame MAGIC | LEN | PAYLOAD held
\* bit-exactly by a carrier with enough pixels, whose three bytes after the
\* magic fail the new-format test, is decoded on the legacy branch with
\* length LEN and exactly the LEN bytes from frame offset 6.
C6_LegacyCompatibility ==
    (/\ pc = "dec_done"
     /\ HoldsBytes(pixels, 7)
     /\ StreamBytes(pixels, 0, 4) = <<68, 79, 71, 69>>
     /\ ~ModernTest(StreamBytes(pixels, 4, 3))
     /\ HoldsBytes(pixels, 6 + StreamByteAt(pixels, 4) * 256 + StreamByteAt(pixels, 5)))
    => LET LEN == StreamByteAt(pixels, 4) * 256 + StreamByteAt(pixels, 5)
       IN  /\ ~isNewFormat
           /\ dataLength = LEN
           /\ dataBytes = StreamBytes(pixels, 6, LEN)
           /\ reader3.pixelIndex = CeilPixels(6 + LEN)
           /\ LEN >= 1 =>
                 /\ outcome.kind = "result"
                 /\ outcome.format = "legacy"
                 /\ outcome.dataType = "address"
                 /\ outcome.length = LEN
                 /\ outcome.payload = StreamBytes(pixels, 6, LEN)

\* a legacy frame of the longest payload has been decoded from a carrier
\* that was never encoded by this run
C6_Witness ==
    /\ pc = "dec_done"
    /\ ~encodeLSBCalled
    /\ outcome.kind = "result"
    /\ outcome.format = "legacy"
    /\ outcome.length = MaxPayloadLen
    /\ StreamBytes(pixels, 4, 2) = <<0, MaxPayloadLen>>

\* C7 - Type tagging: the decoder reports a private key exactly when the
\* frame is classified modern and its type byte is 0x01; modern frames of
\* type 0x00 and all legacy frames are reported as an address.  A frame of
\* type 0x01 and payload 1A 2B 3C written into an all-zero carrier decodes
\* to type 0x01 and that payload.
C7_TypeTagging ==
    /\ (pc = "dec_done" /\ outcome.kind = "result")
         => LET b == StreamBytes(pixels, 4, 3)
            IN  /\ outcome.dataType \in {"private_key", "address"}
                /\ outcome.dataType = "private_key"
                       <=> (ModernTest(b) /\ b[1] = 1)
                /\ outcome.dataType = "private_key"
                       => (outcome.format = "modern" /\ outcome.typeTag = 1)
    /\ (/\ DecodedAfterEncode
        /\ dataTypeByteEnc = 1
        /\ dataBytesEnc = <<26, 43, 60>>
        /\ \A i \in 1..Len(carrier) : carrier[i] = 0)
         => /\ outcome.kind = "result"
            /\ outcome.dataType = "private_key"
            /\ outcome.typeTag = 1
            /\ outcome.payload = <<26, 43, 60>>

\* the frame 0x01 | 1A 2B 3C has been written into an all-zero carrier and
\* decoded
C7_Witness ==
    /\ DecodedAfterEncode
    /\ dataTypeByteEnc = 1
    /\ dataBytesEnc = <<26, 43, 60>>
    /\ Len(carrier) > 0
    /\ \A i \in 1..Len(carrier) : carrier[i] = 0
    /\ outcome.dataType = "private_key"

\* C8 - Idempotent re-decode: decode never writes to the pixel buffer, and
\* decoding the same unmodified carrier a second time settles the same way
\* (same result or same error).
C8_IdempotentRedecode ==
    /\ pc \in {"dec_magic", "dec_peek", "dec_classify", "dec_legacy",
               "dec_modern", "dec_done"}
         => pixels = pixels0
    /\ (pc = "dec_done" /\ lastOutcome.kind # "none")
         => outcome = lastOutcome

\* a carrier has been decoded twice to a result
C8_Witness ==
    /\ pc = "dec_done"
    /\ decodes >= 2
    /\ lastOutcome.kind = "result"
    /\ outcome.kind = "result"
    /\ Len(outcome.payload) >= 1

\* C9 - Format classification rule: with b0, b1, b2 the bytes at frame
\* offsets 4, 5, 6 after a matching magic, the stream is modern iff b0 is 0
\* or 1 and 1 <= (b1<<8)|b2 <= 2000, then with type b0, length (b1<<8)|b2
\* and payload from offset 7; otherwise legacy with length (b0<<8)|b1 and
\* payload from offset 6.  A legacy stream that passes the test is decoded
\* as modern.
C9_ClassificationRule ==
    (pc \in {"dec_modern", "dec_legacy"} \/ (pc = "dec_done" /\ peek # << >>))
    => LET b0 == StreamByteAt(pixels, 4)
           b1 == StreamByteAt(pixels, 5)
           b2 == StreamByteAt(pixels, 6)
           modern == b0 \in {0, 1} /\ 1 <= b1 * 256 + b2 /\ b1 * 256 + b2 <= 2000
       IN  /\ isNewFormat <=> modern
           /\ pc = "dec_modern" <=> (modern /\ pc # "dec_done")
           /\ modern =>
                /\ dataTypeByte = b0
                /\ dataLength = b1 * 256 + b2
                /\ (pc = "dec_done" /\ HoldsBytes(pixels, 7 + dataLength))
                     => /\ dataBytes = StreamBytes(pixels, 7, dataLength)
                        /\ reader3 = NoReader
           /\ ~modern =>
                /\ dataLength = b0 * 256 + b1
                /\ (pc = "dec_done" /\ HoldsBytes(pixels, 6 + dataLength))
                     => /\ dataBytes = StreamBytes(pixels, 6, dataLength)
                        /\ reader3.pixelIndex = CeilPixels(6 + dataLength)

\* the legacy frame MAGIC | 00 03 | 1A 2B 3C, whose bytes 00 03 1A pass the
\* test, has been classified modern with length 0x031A
C9_Witness ==
    /\ pc = "dec_done"
    /\ ~encodeLSBCalled
    /\ PixelCount(pixels) = CeilPixels(9)
    /\ StreamBytes(pixels, 0, 9) = <<68, 79, 71, 69, 0, 3, 26, 43, 60>>
    /\ isNewFormat
    /\ dataLength = 794

\* C10 as stated - Length validity on decode: whenever the decoder returns
\* a result, on either branch, the length it decoded lies in 1..2000; a
\* decoded length outside 1..2000 gives the invalid-length error.
C10_LengthValidOnDecode ==
    (pc = "dec_done" /\ peek # << >>)
    => /\ outcome.kind = "result"
            => (dataLength \in 1..2000 /\ outcome.length \in 1..2000)
       /\ dataLength \notin 1..2000
            => outcome = ErrorOutcome(InvalidLength)

\* C11 as stated - Length policy on encode: every frame encodeAddressInImage
\* commits to the carrier has a 2-byte big-endian length field equal to the
\* payload byte count, and that length lies in 1..2000; a payload of 0 bytes
\* or of more than 2000 bytes is never written.
C11_LengthPolicyOnEncode ==
    pc = "enc_done"
    => /\ HoldsBytes(pixels, 7)
       /\ StreamByteAt(pixels, 5) * 256 + StreamByteAt(pixels, 6)
             = Len(dataBytesEnc)
       /\ Len(dataBytesEnc) >= 1
       /\ Len(dataBytesEnc) <= MAX_DATA_LENGTH

\* the reader in use when the decode ended
LastReader ==
    IF reader3 # NoReader THEN reader3
    ELSE IF reader2 # NoReader THEN reader2
    ELSE reader

\* C12 - Truncated carrier: if the pixel buffer is exhausted before a
\* requested read completes (the 4 magic bytes, the 3 peeked bytes, the
\* legacy length bytes or the payload), readBytes raises not-enough-data and
\* the decode fails; a decode never returns a payload shorter than the
\* decoded length or holding bytes that were not read from the pixels.
C12_TruncatedCarrier ==
    pc = "dec_done"
    => LET off == IF isNewFormat THEN 7 ELSE 6
           starved == ErrorOutcome(NotEnoughData)
       IN  /\ ~HoldsBytes(pixels, 4) => outcome = starved
           /\ (/\ HoldsBytes(pixels, 4)
               /\ StreamBytes(pixels, 0, 4) = MAGIC_MARKER
               /\ ~HoldsBytes(pixels, 7)) => outcome = starved
           /\ (peek # << >> /\ ~HoldsBytes(pixels, off + dataLength))
                 => (outcome = starved /\ dataBytes = << >>)
           /\ outcome = starved
                 => LastReader.pixelIndex = PixelCount(pixels)
           /\ outcome.kind = "result"
                 => /\ HoldsBytes(pixels, off + dataLength)
                    /\ Len(outcome.payload) = dataLength
                    /\ outcome.payload = StreamBytes(pixels, off, dataLength)

\* a legacy frame with an 8-byte payload, on a carrier one pixel short of
\* it, has been decoded: magic, peek and length were read, the payload read
\* ran out of pixels
C12_Witness ==
    /\ pc = "dec_done"
    /\ outcome = ErrorOutcome(NotEnoughData)
    /\ peek # << >>
    /\ ~isNewFormat
    /\ dataLength = 8
    /\ PixelCount(pixels) = CeilPixels(6 + 8) - 1
    /\ reader3.pixelIndex = PixelCount(pixels)

\* what every valid payload satisfies: witness text "doge1...", the 25 bytes
\* of a Base58Check address, or the 37 or 38 bytes of a WIF key
PlausiblePayload(bytes) ==
    \/ StartsWithDoge1(bytes)
    \/ Len(bytes) \in {25, 37, 38}

\* C13 as stated - Payload decode failure: when the payload bytes that were
\* read do not form a valid address or key under either interpretation
\* (witness text, Base58 re-encoding), the decode fails with a payload-decode
\* error and returns no result for that payload.
C13_PayloadDecodeFailure ==
    (/\ pc = "dec_done"
     /\ peek # << >>
     /\ outcome # ErrorOutcome(NotEnoughData)
     /\ outcome # ErrorOutcome(InvalidLength)
     /\ ~PlausiblePayload(dataBytes))
    => outcome.kind = "error"

\* C16 - encodeLSB bit placement: for a frame of n bytes, stream bit 3k goes
\* to the low bit of R, 3k+1 of G and 3k+2 of B of pixel k; when 8n is not a
\* multiple of 3 the missing low-order bits of the last written pixel are
\* written as 0, and no other pixel receives padding.
C16_BitPlacement ==
    pc = "enc_done"
    => \A k \in 0..(PixelCount(pixels) - 1) : \A c \in 0..2 :
          LET j == 3 * k + c
          IN  IF j < 8 * Len(full)
              THEN pixels[4 * k + c + 1] % 2 = StreamBit(full, j)
              ELSE IF k < CeilPixels(Len(full))
              THEN pixels[4 * k + c + 1] % 2 = 0
              ELSE pixels[4 * k + c + 1] % 2 = carrier[4 * k + c + 1] % 2

\* a frame whose bit count is not a multiple of 3 and whose last bit is 1
\* has been written over channels whose low bits were 1, with spare pixels
C16_Witness ==
    /\ pc = "enc_done"
    /\ (8 * Len(full)) % 3 # 0
    /\ StreamBit(full, 8 * Len(full) - 1) = 1
    /\ PixelCount(pixels) > CeilPixels(Len(full))
    /\ carrier[4 * (CeilPixels(Len(full)) - 1) + 3] % 2 = 1
    /\ pixels[4 * (CeilPixels(Len(full)) - 1) + 3] % 2 = 0

\* C17 - encodeLSB frame condition: encoding n bytes changes only the low
\* bit of R, G and B and the alpha of the first ceil(8n/3) pixels; the upper
\* seven bits of those colour channels keep their values, and all four
\* channels of every later pixel are untouched.
C17_FrameCondition ==
    pc = "enc_done"
    => /\ Len(pixels) = Len(carrier)
       /\ \A k \in 0..(PixelCount(pixels) - 1) :
             IF k < CeilPixels(Len(full))
             THEN \A c \in 1..3 :
                     pixels[4 * k + c] \div 2 = carrier[4 * k + c] \div 2
             ELSE \A c \in 1..4 : pixels[4 * k + c] = carrier[4 * k + c]

\* a mixed carrier with spare pixels has been encoded, and a colour channel
\* with upper bits set had its low bit changed
C17_Witness ==
    /\ pc = "enc_done"
    /\ PixelCount(pixels) > CeilPixels(Len(full))
    /\ \E i \in 1..(4 * CeilPixels(Len(full))) :
          /\ i % 4 # 0
          /\ carrier[i] >= 4
          /\ carrier[i] % 4 = 2
          /\ pixels[i] = carrier[i] + 1

\* bit i of a non-negative integer below 2^31
UBit(v, i) == IF i >= 31 THEN 0 ELSE BitOf(v, i)

\* C14 as stated - BitQueue is a strict FIFO of bits: after any sequence of
\* pushByte / pushBitsFromValue / popBits the queue holds, in push order,
\* exactly the pushed bits not yet popped (pushByte appends the 8 bits of
\* the byte most-significant first); popBits(n) with n <= size() removes
\* exactly the first n bits, returns the unsigned integer in 0..2^n-1 whose
\* most-significant bit is the first bit removed, and decreases size() by n.
C14_StrictFifo ==
    /\ bqPopped <= Len(bqPushed)
    /\ bq = SubSeq(bqPushed, bqPopped + 1, Len(bqPushed))
    /\ (bqRet.op = "popBits" /\ bqRet.n <= Len(bqRet.before))
          => /\ bqRet.ok
             /\ bq = SubSeq(bqRet.before, bqRet.n + 1, Len(bqRet.before))
             /\ BitQueue_size(bq) = Len(bqRet.before) - bqRet.n
             /\ bqRet.out >= 0
             /\ \A k \in 1..bqRet.n :
                   UBit(bqRet.out, bqRet.n - k) = bqRet.before[k]

\* C15 - BitQueue.popBits(n) on a queue holding fewer than n bits returns
\* the insufficient signal (null) without raising an exception and leaves
\* the queued bits and size() unchanged.
C15_PopInsufficient ==
    (bqRet.op = "popBits" /\ Len(bqRet.before) < bqRet.n)
    => /\ ~bqRet.ok
       /\ bq = bqRet.before
       /\ BitQueue_size(bq) = Len(bqRet.before)
       /\ bq = SubSeq(bqPushed, bqPopped + 1, Len(bqPushed))

\* popBits(8) has been called on a queue holding five bits, after earlier
\* pushes and pops
C15_Witness ==
    /\ bqRet.op = "popBits"
    /\ bqRet.n = 8
    /\ Len(bqRet.before) = 5
    /\ bqPopped > 0
    /\ ~bqRet.ok

\* C18 as stated - D-IBAN is reversible: for every supported Dogecoin
\* address a (P2PKH "D...", P2SH "9..." / "A...", P2WPKH "doge1..."),
\* decodeDIBAN(encodeDIBAN(a).diban).address equals a.
C18_DibanReversible ==
    dibanPc = "decoded"
    => /\ dibanDecoded.ok
       /\ dibanDecoded.address = dogeAddress

RECURSIVE Mod97Of(_, _)
\* the number that a string of digits and capital letters spells when A..Z
\* are read as 10..35, modulo 97
Mod97Of(str, r) ==
    IF r < 0 \/ str = << >> THEN r
    ELSE LET v == IF Head(str) \in Range(DigitChars)
                  THEN indexOf(DigitChars, Head(str))
                  ELSE 10 + indexOf(UpperChars, Head(str))
         IN  Mod97Of(Tail(str), (r * (IF v < 10 THEN 10 ELSE 100) + v) % 97)

C20_DogeWordsReversible ==
    wordsPc = "decoded"
    => LET ws == SplitWords(wordsResult.words)
           b  == wordsToBytes(JoinWords(SubSeq(ws, 2, Len(ws) - 1)), 25).bytes
       IN  /\ wordsValid
           /\ wordsDecoded.ok
           /\ Len(b) = 25
           /\ wordsToBytes(bytesToWords(b), 25) = [ok |-> TRUE, bytes |-> b]
           /\ wordsDecoded.address = dogeAddress

\* C21 - Transport round-trip: for every byte sequence d and every pixel
\* buffer with at least ceil(8 * len(d) / 3) pixels, encodeLSB(pixels, d)
\* succeeds and a fresh PixelBitReader on the buffer returns exactly d from
\* readBytes(len(d)), whatever the buffer held before.
C21_TransportRoundTrip ==
    (/\ encodeLSBCalled
     /\ PixelCount(carrier) >= CeilPixels(Len(dataBytesEnc)))
    => /\ encError = ""
       /\ pc \in {"lsb_written", "reading"}
       /\ (/\ curRet.op = "readBytes"
           /\ curRet.before = [pixelIndex |-> 0, q |-> << >>]
           /\ curRet.n = Len(dataBytesEnc))
             => /\ curRet.ok
                /\ curRet.out = dataBytesEnc

\* the longest byte sequence has been written into a buffer of exactly the
\* pixels it needs, whose low bits differed from the sequence's, and a fresh
\* cursor has read it back
C21_Witness ==
    /\ encodeLSBCalled
    /\ Len(dataBytesEnc) = MaxTransportLen
    /\ PixelCount(carrier) = CeilPixels(Len(dataBytesEnc))
    /\ \E j \in 0..(8 * Len(dataBytesEnc) - 1) :
          LowBitAt(carrier, j) # StreamBit(dataBytesEnc, j)
    /\ curRet.op = "readBytes"
    /\ curRet.before = [pixelIndex |-> 0, q |-> << >>]
    /\ curRet.n = Len(dataBytesEnc)
    /\ curRet.out = dataBytesEnc

\* C24 - PixelBitReader stream semantics: the bits a cursor delivers are the
\* concatenation, pixel by pixel in buffer order, of the low bits of R, G, B
\* in that order, and the delivered sequence is the same however the reads
\* are split into popBits(n), popByte and readBytes calls that the buffer
\* can satisfy.
C24_StreamSemantics ==
    \A c \in Cursors :
       /\ Len(curBits[c]) <= 3 * PixelCount(pixels)
       /\ \A j \in 1..Len(curBits[c]) : curBits[c][j] = LowBitAt(pixels, j - 1)
       /\ curFailed[c] # "threw" => Len(curBits[c]) = curPopped[c]

\* cursor 1 has delivered more than two bytes of a buffer with low bits of
\* both values, in pieces that left it between pixels, and cursor 2 has
\* delivered whole bytes
C24_Witness ==
    /\ curRet.cursor = 1
    /\ curRet.op = "popBits"
    /\ curRet.n = 3
    /\ curRet.ok
    /\ Len(curRet.before.q) = 1
    /\ Len(curBits[1]) > 16
    /\ Len(curBits[2]) = 32
    /\ \E i, j \in 1..Len(curBits[1]) : curBits[1][i] # curBits[1][j]

\* the value of eight bits, first bit most significant
ByteOfBits(bits, from) ==
      128 * bits[from]     + 64 * bits[from + 1] + 32 * bits[from + 2]
    +  16 * bits[from + 3] +  8 * bits[from + 4] +  4 * bits[from + 5]
    +   2 * bits[from + 6] +      bits[from + 7]

\* C25 - Cursor independence: cursors opened on the same buffer share no
\* mutable state, so in any interleaving of their reads each returns what
\* it would return alone: the two deliver the same bits at the same stream
\* positions and neither writes the buffer.  As in the legacy branch, a
\* cursor that has read 4 and then 2 bytes returns as its next byte the
\* byte another cursor returned third after its first 4.
C25_CursorIndependence ==
    /\ pc = "reading" => pixels = pixels0
    /\ \A i \in 1..Len(curBits[1]) :
          i <= Len(curBits[2]) => curBits[1][i] = curBits[2][i]
    /\ \A c \in Cursors :
          (curFailed[c] = "no" /\ cur[c] # NoReader)
             => /\ 3 * cur[c].pixelIndex = Len(curBits[c]) + Len(cur[c].q)
                /\ Len(cur[c].q) <= 2
    /\ (/\ curRet.cursor = 1
        /\ curRet.op \in {"readBytes", "popByte"}
        /\ curRet.ok
        /\ curRet.out # << >>
        /\ Len(curBits[1]) - 8 * Len(curRet.out) = 48
        /\ Len(curBits[2]) >= 56)
          => curRet.out[1] = ByteOfBits(curBits[2], 49)

\* cursor 2 has read 4 and 3 bytes, cursor 1 has read 6 bytes and then, after
\* cursor 2 was done, its seventh, from a buffer with low bits of both values
C25_Witness ==
    /\ curRet.cursor = 1
    /\ curRet.op = "popByte"
    /\ curRet.ok
    /\ curRet.before = [pixelIndex |-> 16, q |-> << >>]
    /\ Len(curBits[1]) = 56
    /\ Len(curBits[2]) = 56
    /\ cur[2].pixelIndex = 19
    /\ ByteOfBits(curBits[2], 49) \notin {0, 255}

\* the bits of pixels from..(to - 1), R, G, B of each
FetchedBits(px, from, to) ==
    [j \in 1..(3 * (to - from)) |-> LowBitAt(px, 3 * from + j - 1)]

\* what C30 says of every state, apart from the bound on the queue
CursorAccounting ==
    /\ \A c \in Cursors :
          cur[c] # NoReader
             => /\ 0 <= cur[c].pixelIndex
                /\ cur[c].pixelIndex <= PixelBitReader_totalPixels(pixels)
                /\ 3 * cur[c].pixelIndex = curPopped[c] + BitQueue_size(cur[c].q)
    /\ (curRet.op \in {"popBits", "popByte"} /\ ~curRet.ok)
          => /\ cur[curRet.cursor].pixelIndex = PixelBitReader_totalPixels(pixels)
             /\ cur[curRet.cursor].q
                  = curRet.before.q
                      \o FetchedBits(pixels, curRet.before.pixelIndex,
                                     PixelBitReader_totalPixels(pixels))

\* C30 as stated - PixelBitReader accounting invariant: in every reachable
\* state of a cursor 0 <= pixelIndex <= totalPixels and 3 * pixelIndex =
\* bits returned so far + q.size(); after every successful popBits the queue
\* holds at most 2 bits; no pixel of index >= totalPixels is read; when
\* popBits fails, pixelIndex = totalPixels and the bits fetched stay queued.
C30_CursorAccounting ==
    /\ CursorAccounting
    /\ (curRet.op \in {"popBits", "popByte"} /\ curRet.ok)
          => BitQueue_size(cur[curRet.cursor].q) <= 2

\* C30 as amended - the same, with the bound on the queue for the popBits
\* that follow no failed popBits of the cursor; after any successful
\* popBits(n) the queue holds at most 2 bits or, if it held more than n + 2
\* before, n bits fewer than before.
C30_CursorAccountingNoFailure ==
    /\ CursorAccounting
    /\ (curRet.op \in {"popBits", "popByte"} /\ curRet.ok)
          => /\ curFailed[curRet.cursor] = "no"
                   => BitQueue_size(cur[curRet.cursor].q) <= 2
             /\ \/ BitQueue_size(cur[curRet.cursor].q) <= 2
                \/ BitQueue_size(cur[curRet.cursor].q)
                      = BitQueue_size(curRet.before.q) - curRet.n

\* a popBits(8) has failed at the end of the buffer with bits queued, and a
\* popBits(1) after it has succeeded
C30_Witness ==
    /\ curRet.cursor = 1
    /\ curRet.op = "popBits"
    /\ curRet.n = 1
    /\ curRet.ok
    /\ curFailed[1] = "null"
    /\ cur[1].pixelIndex = PixelBitReader_totalPixels(pixels)
    /\ BitQueue_size(curRet.before.q) >= 2
    /\ curPopped[1] >= 8

\* a buffer with the pixel count and the R, G, B low bits of px, whose
\* upper seven bits and alpha are all 0
LowBitsOnly(px) == [i \in 1..Len(px) |-> IF i % 4 = 0 THEN 0 ELSE px[i] % 2]

\* a buffer with the pixel count and the R, G, B low bits of px, whose upper
\* seven bits and alpha are the complements of those of px
UpperBitsFlipped(px) ==
    [i \in 1..Len(px) |->
        IF i % 4 = 0 THEN 255 - px[i]
        ELSE 2 * (127 - (px[i] \div 2)) + (px[i] % 2)]

\* C22 - Only the low bits are meaningful: the outcome of v2 decode depends
\* only on the pixel count and the low bit of each R, G, B channel; carriers
\* with the same pixel count and the same low bits, differing in the upper
\* seven bits of R, G, B and in alpha, decode to identical outcomes.
C22_OnlyLowBits ==
    pc = "dec_done"
    => /\ outcome = v2Decode(pixels, dibanLoaded)
       /\ outcome = v2Decode(LowBitsOnly(pixels), dibanLoaded)
       /\ outcome = v2Decode(UpperBitsFlipped(pixels), dibanLoaded)

\* a carrier of mixed channel values, with alpha values of odd low bit, has
\* been decoded to an address, and it differs from both of its twins
C22_Witness ==
    /\ pc = "dec_done"
    /\ outcome.kind = "result"
    /\ Len(outcome.payload) >= 3
    /\ \E i \in 1..Len(pixels) : i % 4 = 0 /\ pixels[i] % 2 = 1 /\ pixels[i] # 255
    /\ \E i \in 1..Len(pixels) : i % 4 # 0 /\ pixels[i] >= 2
    /\ LowBitsOnly(pixels) # pixels
    /\ UpperBitsFlipped(pixels) # pixels

\* C23 - The encodeLSB capacity fault is unreachable in
\* encodeAddressInImage: whenever the capacity check has passed for a frame
\* of 7 + L bytes, encodeLSB consumes exactly ceil(8 * (7 + L) / 3) pixels,
\* never reaches a pixel index >= the pixel count, and never throws "Image
\* too small for data".
C23_CapacityFaultUnreachable ==
    /\ encError # ImageTooSmallForData
    /\ pc \in {"enc_write", "enc_done"}
          => LET r == encodeLSB(carrier, full)
             IN  /\ Len(full) = 7 + Len(dataBytesEnc)
                 /\ r.ok
                 /\ r.pixelIndex = CeilPixels(7 + Len(dataBytesEnc))
                 /\ r.pixelIndex <= PixelCount(carrier)
                 /\ pc = "enc_done" => pixels = r.pixels

\* a frame whose bit count is not a multiple of 3 has been written into a
\* carrier of exactly the pixels the check asks for
C23_Witness ==
    /\ pc = "enc_done"
    /\ (8 * Len(full)) % 3 = 1
    /\ PixelCount(carrier) = CeilPixels(Len(full))
    /\ encodeLSB(carrier, full).pixelIndex = PixelCount(carrier)

\* C28 as stated - Every v2 decode run over an in-memory pixel buffer ends
\* with exactly one outcome: an address result, a private-key result, the
\* magic-marker error, or the not-enough-data error; the throws "Unexpected
\* decode path" and "Invalid data length" are never reached.
C28_FourOutcomes ==
    /\ pc = "dec_done"
          => \/ outcome.kind = "result" /\ outcome.dataType = "address"
             \/ outcome.kind = "result" /\ outcome.dataType = "private_key"
             \/ outcome = ErrorOutcome(MagicNotFound)
             \/ outcome = ErrorOutcome(NotEnoughData)
    /\ outcome # ErrorOutcome(InvalidLength)
    /\ pc = "dec_modern" => isNewFormat

\* the text entered went through EncodeText and was written
WitnessTextWritten ==
    /\ pc \in {"txt_done", "txt_decoded", "txt_shown"}
    /\ full # << >>
    /\ detectDataType(inputText).type = "address"
    /\ detectDataType(inputText).info.code = "02"

\* C26 as stated - Witness-address text round-trip: every input that v2
\* encode classifies as a witness address (prefix doge1, compared
\* case-insensitively after trimming) is stored as its UTF-8 text with type
\* tag 0x00, and v2 decode of that frame returns the same text as the
\* address.
C26_WitnessTextRoundTrip ==
    WitnessTextWritten
    => /\ dataTypeByteEnc = 0
       /\ dataBytesEnc = TextEncoder_encode(Trim(inputText))
       /\ pc # "txt_done"
             => /\ outcome.kind = "result"
                /\ outcome.dataType = "address"
                /\ decodedResult(outcome).address = Trim(inputText)

\* C29 as stated - Whenever decodeAddressFromImage resolves, the decode UI
\* handler displays the decoded secret: the result carries the secret in
\* result.address together with a non-null result.type, for address results
\* and for private-key results alike, so a decoded private key is shown
\* rather than the text undefined or an error.
C29_SecretDisplayed ==
    pc = "txt_shown" /\ outcome.kind = "result"
    => LET result == decodedResult(outcome)
       IN  /\ result.type # NullType
           /\ result.address # <<"undefined">>
           /\ shown.class = "result success"
           /\ shown.address = IF outcome.dataType = "private_key"
                              THEN result.privateKey ELSE result.address
           /\ shown.address # <<"u", "n", "d", "e", "f", "i", "n", "e", "d">>

\* C27 as stated - The first encoder writes its complete frame: after it
\* succeeds on a frame MAGIC | LEN | address bytes, the pixel low bits hold
\* every bit of the frame, including the last 1 or 2 bits when the bit
\* count is not a multiple of 3, so that the first decoder and the legacy
\* branch of the present decoder recover exactly the encoded address bytes,
\* whatever the carrier's pixel values were.
C27_V1CompleteFrame ==
    /\ pc \in {"v1_done", "v1_decoded_by_v2"} \/ (pc = "v1_decoded" /\ full # << >>)
          => StreamBytes(pixels, 0, Len(full)) = full
    /\ pc = "v1_decoded" /\ full # << >>
          => outcome.kind = "result" /\ outcome.payload = dataBytesEnc
    /\ pc = "v1_decoded_by_v2" /\ outcome.format = "legacy"
          => outcome.kind = "result" /\ outcome.payload = dataBytesEnc

====
